---- MODULE Spec2Model ----
(***************************************************************************)
(* Model of scherzo-core's step compressor                                 *)
(* (crates/scherzo-core/src/step_compressor.rs) and trap queue             *)
(* (crates/scherzo-core/src/trap_queue.rs).                                *)
(*                                                                         *)
(* The compressor is one record, sc, whose fields carry the names of the   *)
(* fields of StepCompressor<S>.  Every method is an operator from a        *)
(* compressor record (and the call's arguments) to the compressor record   *)
(* after the call; a Result::Err that `?` propagates is the field err,     *)
(* which every public method sets to "Ok" on entry.                        *)
(*                                                                         *)
(* Numbers.  TLC's integers are 32 bits wide, so the clock widths of the   *)
(* source are scaled: the source's interval limit 0x8000_0000 = 2^31 is    *)
(* 2^ClockBits here, u32 wraps at 2^(ClockBits+1) and CLOCK_DIFF_MAX =     *)
(* 3 << 28 is 3 << (ClockBits - 3).  u64 clocks never wrap in the model.   *)
(* Times are counted in half ticks of the MCU clock (print_time +          *)
(* step_time = h / (2 * mcu_freq)), so that the rounding of append's       *)
(* float-to-clock conversion is part of the model.  The f64 arithmetic of  *)
(* find_past_position rounds to a significand of MantBits bits (53 in the  *)
(* source), scaled like the clock widths.                                  *)
(*                                                                         *)
(* The trap queue is the record tq; its methods are the operators trapq_*. *)
(* The two structures share no state: Spec, SpecAll and SpecRuns move the  *)
(* compressor, SpecTrapQueue moves the trap queue.                         *)
(***************************************************************************)
EXTENDS Integers, Sequences, FiniteSets, TLC

\* ------------------------------------------------------------------ bounds
\* Width of the interval field (31 in the source, see above).
ClockBits == 5
\* Number of append calls of one run of Spec (append, commit, flush).
MaxAppends == 3
\* Number of append calls of one run of SpecAll (every method).
MaxAppendsAll == 2
\* Number of append calls of one run of SpecRuns (steps in clock order).
MaxAppendsRuns == 3
\* The largest |add| of the alternative runs a compressed stream is compared to.
MaxAltAdd == 8
\* Number of add_move, append, finalize_moves and set_position calls of one
\* run of SpecTrapQueue.
MaxTqCalls == 3
\* Number of calls of set_last_position, reset, expire_history and
\* set_invert_sdir of one run of SpecAll.
MaxAdmin == 1
\* max_error of the compressor (the argument of StepCompressor::new).
MaxError == 2
\* Width of the significand of an f64 (53 in the source).  Like the source's,
\* it holds every interval (below 2^ClockBits) exactly and is narrower than
\* the square of the longest interval of a run.
MantBits == 5
\* mcu_freq of the compressor in Hz (the argument of set_time).
McuFreq == 4000
\* Number of add_move calls, and of generate_steps calls, of one run of
\* SpecSolver.
MaxSolverMoves == 2
MaxSolverCalls == 2

\* Steps appended beyond those of a state, for the runs of increasing clocks.
MaxMore == 3

\* --------------------------------------------------------------- constants
\* const SDS_FILTER_TIME: f64 = 0.000_750, in microseconds.
SDS_FILTER_TIME_US == 750
\* const QUADRATIC_DEV: i64 = 11.
QUADRATIC_DEV == 11
\* The count limit of one run, 65_535 (qlast in compress_bisect_add).
MAX_COUNT == 65535
\* The early exit of compress_bisect_add, count > 0x200.
EARLY_EXIT_COUNT == 512
\* minadd = -0x8000 and maxadd = 0x7fff in compress_bisect_add.
MIN_ADD == -32768
MAX_ADD == 32767

\* 0x8000_0000 in check_line, scaled.
INTERVAL_LIMIT == 2 ^ ClockBits
\* The modulus of an `as u32` cast, scaled.
U32_MOD == 2 * INTERVAL_LIMIT
\* const CLOCK_DIFF_MAX: u64 = 3 << 28, scaled.
CLOCK_DIFF_MAX == 3 * (2 ^ (ClockBits - 3))
\* const SEEK_TIME_RESET: f64 = 0.000100 of the iterative solver, and the
\* 0.000000001 (times, positions) and 0.000000010 of gen_steps_range, on the
\* solver's grid.
SEEK_TIME_RESET == 4
TIME_EPS == 1
POS_EPS == 0
DIR_EPS == 0
\* const MAX_NULL_MOVE: f64 = 1.0 of the trap queue.
MAX_NULL_MOVE == 1
\* const NEVER_TIME: f64 = 9_999_999_999_999_999.9 of the trap queue: above
\* every time of the model.
NEVER_TIME == 10 ^ 6

\* u64::MAX as a flush clock: above every clock of the model.
U64_MAX == 2 ^ 24
\* i64::MIN, the first bestreach: below every reach of the model.
I64_MIN == -(2 ^ 30)

\* Option<u64>: None is the empty sequence, Some(c) is <<c>>.
None == << >>
Some(c) == << c >>
IsSome(o) == o # None
Unwrap(o) == o[1]

\* ------------------------------------------------------------ arithmetic
\* Rust's integer division, which truncates toward zero (d > 0).
TruncDiv(n, d) == IF n >= 0 THEN n \div d ELSE -((-n) \div d)

idiv_up(n, d) == IF n >= 0 THEN TruncDiv(n + d - 1, d) ELSE TruncDiv(n, d)

idiv_down(n, d) == IF n >= 0 THEN TruncDiv(n, d) ELSE TruncDiv(n - d + 1, d)

\* `x as u32`, `x as u16` and `x as i16` of an i64.
AsU32(x) == x % U32_MOD
AsU16(x) == x % 65536
AsI16(x) == ((x + 32768) % 65536) - 32768

\* `x as u64` of an f64 given as the fraction n / 2: truncated toward zero,
\* and 0 for a negative value (the cast saturates).
F64HalvesAsU64(n) == IF n <= 0 THEN 0 ELSE n \div 2

Min(a, b) == IF a < b THEN a ELSE b

\* The largest member of a set of naturals, 0 for the empty set.
Max0(S) == IF S = { } THEN 0 ELSE CHOOSE x \in S : \A y \in S : y <= x

\* --------------------------------------------------------------- the state
VARIABLES
  sc,         \* the StepCompressor
  appended,   \* number of append calls so far
  rollbacks,  \* number of append calls that took the SDS rollback branch
  increasing, \* every step so far was appended with a clock after Now
  admin,      \* number of set_last_position/reset/expire_history/set_invert_sdir calls
  used,       \* which of those four methods were called so far
  back,       \* reset was called with a clock before last_step_clock, or
              \* set_last_position with a clock after it
  tq,         \* the TrapQueue
  tqcalls,    \* number of add_move, append, finalize_moves and set_position calls
  tqplain,    \* only add_move was called so far, each time with a move_t that
              \* is not negative and a print_time not before the end of the
              \* move added before it
  tqlast,     \* the method of the TrapQueue called last
  sk          \* the IterativeSolver of the stepper

\* What the actions of the trap queue leave alone, and what those of the
\* compressor do; the solver is in both.
scvars == << sc, appended, rollbacks, increasing, admin, used, back, sk >>

tqvars == << tq, tqcalls, tqplain, tqlast, sk >>

vars == << sc, appended, rollbacks, increasing, admin, used, back,
           tq, tqcalls, tqplain, tqlast, sk >>

\* StepCompressor::new(oid, max_error, sink) followed by set_time(0.0, McuFreq),
\* as compressor_with_sink() of the source's tests builds it.  The fields
\* queue_dir, trace, promoted, lost, wrapped and net are bookkeeping of the model:
\* they are written, never read, by the operators that model code.
NewCompressor ==
  [ oid |-> 1,
    max_error |-> MaxError,
    last_step_print_time |-> -1,     \* (0 - 0.5) / mcu_freq, in half ticks
    last_step_clock |-> 0,
    sdir |-> -1,
    invert_sdir |-> FALSE,
    next_step_clock |-> None,
    next_step_dir |-> 0,
    queue |-> << >>,
    queue_pos |-> 0,
    last_position |-> 0,
    history |-> << >>,               \* front (newest) first
    sink |-> << >>,
    err |-> "Ok",
    queue_dir |-> << >>,             \* per queued step: its dir bit when it was queued
    trace |-> << >>,                 \* per command of the sink: what it was made from
    promoted |-> 0,                  \* steps taken from pending into the queue or a far run
    lost |-> 0,                      \* pending steps taken and then dropped by an error
    wrapped |-> FALSE,               \* add_move added a negative ticks to first_clock
    net |-> 0 ]                      \* append calls with sdir 1 minus those with sdir 0

\* ------------------------------------------------------ compression of a run
\* A pending queue entry, 0-based as in the source.
QueueAt(s, idx) == s.queue[idx + 1]

minmax_point(s, idx) ==
  LET lsc == s.last_step_clock
      point == QueueAt(s, idx) - lsc
      prevpoint == IF idx > s.queue_pos THEN QueueAt(s, idx - 1) - lsc ELSE 0
      half == TruncDiv(point - prevpoint, 2)
      max_error == IF half > s.max_error THEN s.max_error ELSE half
  IN [ minp |-> point - max_error, maxp |-> point ]

StepMove(interval, count, add) ==
  [ interval |-> AsU32(interval), count |-> AsU16(count), add |-> AsI16(add) ]

\* The inner loop of compress_bisect_add: extend the run by one point at a
\* time while an interval fits all its points.  It ends by the `return` at
\* the end of the queue (kind "return") or by `break` (kind "break"); the
\* result carries the locals the outer loop reads afterwards.
RECURSIVE InnerLoop(_, _, _, _, _, _, _)
InnerStep(s, qlast, add, nmin, nmax, interval, nextcount, nextpoint) ==
  IF nmin > nmax
  THEN [ kind |-> "break", interval |-> interval, nextcount |-> nextcount,
         nextmininterval |-> nmin, nextmaxinterval |-> nmax, nextpoint |-> nextpoint ]
  ELSE InnerLoop(s, qlast, add, nmin, nmax, nmax, nextcount)

InnerBody(s, qlast, add, nextmininterval, nextmaxinterval, interval, nextcount, nextpoint, c) ==
  InnerStep(s, qlast, add,
            IF nextmininterval * nextcount < nextpoint.minp - c
            THEN idiv_up(nextpoint.minp - c, nextcount) ELSE nextmininterval,
            IF nextmaxinterval * nextcount > nextpoint.maxp - c
            THEN idiv_down(nextpoint.maxp - c, nextcount) ELSE nextmaxinterval,
            interval, nextcount, nextpoint)

InnerLoop(s, qlast, add, nextmininterval, nextmaxinterval, interval, count) ==
  IF s.queue_pos + (count + 1) > qlast
  THEN [ kind |-> "return", interval |-> interval, nextcount |-> count + 1,
         nextmininterval |-> nextmininterval, nextmaxinterval |-> nextmaxinterval,
         nextpoint |-> [ minp |-> 0, maxp |-> 0 ] ]
  ELSE InnerBody(s, qlast, add, nextmininterval, nextmaxinterval, interval, count + 1,
                 minmax_point(s, s.queue_pos + count),
                 add * (((count + 1) * count) \div 2))

\* The choice after the outer loop of compress_bisect_add.
BestMove(v) ==
  IF v.zerocount + TruncDiv(v.zerocount, 16) >= v.bestcount
  THEN StepMove(v.zerointerval, v.zerocount, 0)
  ELSE StepMove(v.bestinterval, v.bestcount, v.bestadd)

\* reach = add * addfactor + interval * count
Reach(interval, count, add) == add * ((count * (count - 1)) \div 2) + interval * count

\* reach > bestreach || (reach == bestreach && interval > bestinterval)
IsBetter(v, interval, count) ==
  \/ Reach(interval, count, v.add) > v.bestreach
  \/ (Reach(interval, count, v.add) = v.bestreach /\ interval > v.bestinterval)

\* The body of that `if`: remember the candidate (and the zero-add one).
NoteBest(v, interval, count) ==
  IF IsBetter(v, interval, count)
  THEN [ v EXCEPT !.bestinterval = interval, !.bestcount = count,
                  !.bestadd = v.add, !.bestreach = Reach(interval, count, v.add),
                  !.zerointerval = IF v.add = 0 THEN interval ELSE @,
                  !.zerocount = IF v.add = 0 THEN count ELSE @ ]
  ELSE v

\* if nextreach < nextpoint.minp { minadd = add + 1; outer_maxinterval = .. }
\* else { maxadd = add - 1; outer_mininterval = .. }
TightenByReach(v, r) ==
  IF Reach(r.interval, r.nextcount, v.add) < r.nextpoint.minp
  THEN [ v EXCEPT !.minadd = v.add + 1, !.outer_maxinterval = r.nextmaxinterval ]
  ELSE [ v EXCEPT !.maxadd = v.add - 1, !.outer_mininterval = r.nextmininterval ]

\* if count > 1 { clamp minadd and maxadd to add -+ errdelta }
TightenByErrdelta(v, count, errdelta) ==
  IF count > 1
  THEN [ v EXCEPT !.minadd = IF @ < v.add - errdelta THEN v.add - errdelta ELSE @,
                  !.maxadd = IF @ > v.add + errdelta THEN v.add + errdelta ELSE @ ]
  ELSE v

\* The clamps of minadd and maxadd by the next point and the outer intervals.
TightenByNextPoint(v, nextpoint, nextcount, nextaddfactor) ==
  [ v EXCEPT
      !.minadd = IF @ * nextaddfactor < nextpoint.minp - v.outer_maxinterval * nextcount
                 THEN idiv_up(nextpoint.minp - v.outer_maxinterval * nextcount, nextaddfactor)
                 ELSE @,
      !.maxadd = IF @ * nextaddfactor > nextpoint.maxp - v.outer_mininterval * nextcount
                 THEN idiv_down(nextpoint.maxp - v.outer_mininterval * nextcount, nextaddfactor)
                 ELSE @ ]

\* add = maxadd - (maxadd - minadd) / 4
NextAdd(v) == [ v EXCEPT !.add = v.maxadd - TruncDiv(v.maxadd - v.minadd, 4) ]

Tighten(s, v, r) ==
  TightenByNextPoint(
    TightenByErrdelta(TightenByReach(v, r), r.nextcount - 1,
                      TruncDiv(s.max_error * QUADRATIC_DEV,
                               (r.nextcount - 1) * (r.nextcount - 1))),
    r.nextpoint, r.nextcount, (r.nextcount * (r.nextcount - 1)) \div 2)

\* The outer loop of compress_bisect_add, a bisection over add; v holds the
\* locals that live across its iterations, r is the inner loop's result.
RECURSIVE OuterLoop(_, _, _)
OuterNext(s, qlast, v) ==
  IF v.minadd > v.maxadd THEN BestMove(v) ELSE OuterLoop(s, qlast, NextAdd(v))

\* OuterBody returning, at the end of the queue, an interval one tick longer
\* than the inner loop found.
OuterBodyLateInterval(s, qlast, v, r) ==
  IF r.kind = "return" THEN StepMove(r.interval + 1, r.nextcount - 1, v.add)
  ELSE IF IsBetter(v, r.interval, r.nextcount - 1) /\ r.nextcount - 1 > EARLY_EXIT_COUNT
  THEN BestMove(NoteBest(v, r.interval, r.nextcount - 1))
  ELSE OuterNext(s, qlast, Tighten(s, NoteBest(v, r.interval, r.nextcount - 1), r))

OuterBody(s, qlast, v, r) ==
  IF r.kind = "return" THEN StepMove(r.interval, r.nextcount - 1, v.add)
  ELSE IF IsBetter(v, r.interval, r.nextcount - 1) /\ r.nextcount - 1 > EARLY_EXIT_COUNT
  THEN BestMove(NoteBest(v, r.interval, r.nextcount - 1))
  ELSE OuterNext(s, qlast, Tighten(s, NoteBest(v, r.interval, r.nextcount - 1), r))

OuterLoop(s, qlast, v) ==
  OuterBody(s, qlast, v,
            InnerLoop(s, qlast, v.add, v.outer_mininterval, v.outer_maxinterval,
                      v.outer_maxinterval, 1))

compress_bisect_add(s) ==
  OuterLoop(s, Min(s.queue_pos + MAX_COUNT, Len(s.queue)),
       [ outer_mininterval |-> minmax_point(s, s.queue_pos).minp,
         outer_maxinterval |-> minmax_point(s, s.queue_pos).maxp,
         add |-> 0, minadd |-> MIN_ADD, maxadd |-> MAX_ADD,
         bestinterval |-> 0, bestcount |-> 1, bestadd |-> 1, bestreach |-> I64_MIN,
         zerointerval |-> 0, zerocount |-> 0 ])

\* The loop of check_line over the points of the run: i is the 0-based index,
\* p the reconstructed offset before point i.
RECURSIVE CheckPoints(_, _, _, _, _)
CheckPoints(s, mv, i, interval, p) ==
  IF i >= mv.count THEN "Ok"
  ELSE LET point == minmax_point(s, s.queue_pos + i)
           p1 == p + interval
       IN IF p1 < point.minp \/ p1 > point.maxp THEN "PointOutOfRange"
          ELSE IF interval >= INTERVAL_LIMIT THEN "IntervalOverflow"
          ELSE CheckPoints(s, mv, i + 1, interval + mv.add, p1)

\* check_line: "Ok", or the kind of the error it returns.
check_line(s, mv) ==
  IF mv.count = 0
     \/ (mv.interval = 0 /\ mv.add = 0 /\ mv.count > 1)
     \/ mv.interval >= INTERVAL_LIMIT
  THEN "InvalidSequence"
  ELSE CheckPoints(s, mv, 0, mv.interval, 0)

\* ------------------------------------------------------------ emitting runs
calc_last_step_print_time(s) ==
  [ s EXCEPT !.last_step_print_time = 2 * s.last_step_clock - 1 ]

QueueStepCmd(oid, first_clock, last_clock, mv, req_clock, min_clock) ==
  [ type |-> "QueueStep", oid |-> oid, first_clock |-> first_clock,
    last_clock |-> last_clock, interval |-> mv.interval, count |-> mv.count,
    add |-> mv.add, req_clock |-> req_clock, min_clock |-> min_clock ]

HistoryEntry(first_clock, last_clock, start_position, step_count, interval, add) ==
  [ first_clock |-> first_clock, last_clock |-> last_clock,
    start_position |-> start_position, step_count |-> step_count,
    interval |-> interval, add |-> add ]

\* let step_count = if self.sdir != 0 { count } else { -count }
StepCount(sdir, count) == IF sdir # 0 THEN count ELSE -count

\* add_move advancing last_position by count whatever the direction.
add_move_forward_only(s, first_clock, mv) ==
  LET addfactor == (mv.count * (mv.count - 1)) \div 2
      ticks == mv.add * addfactor + mv.interval * (mv.count - 1)
      last_clock == first_clock + ticks
      min_clock == s.last_step_clock
      req_clock == IF mv.count = 1 /\ first_clock >= s.last_step_clock + CLOCK_DIFF_MAX
                   THEN first_clock ELSE s.last_step_clock
      step_count == StepCount(s.sdir, mv.count)
  IN [ s EXCEPT
         !.sink = Append(@, QueueStepCmd(s.oid, first_clock, last_clock, mv,
                                         req_clock, min_clock)),
         !.last_step_clock = last_clock,
         !.history = << HistoryEntry(first_clock, last_clock, s.last_position,
                                     step_count, mv.interval, mv.add) >> \o @,
         !.last_position = @ + mv.count,
         !.wrapped = @ \/ ticks < 0 ]

\* add_move recording the position after the run as its start_position.
add_move_records_end(s, first_clock, mv) ==
  LET addfactor == (mv.count * (mv.count - 1)) \div 2
      ticks == mv.add * addfactor + mv.interval * (mv.count - 1)
      last_clock == first_clock + ticks
      min_clock == s.last_step_clock
      req_clock == IF mv.count = 1 /\ first_clock >= s.last_step_clock + CLOCK_DIFF_MAX
                   THEN first_clock ELSE s.last_step_clock
      step_count == StepCount(s.sdir, mv.count)
  IN [ s EXCEPT
         !.sink = Append(@, QueueStepCmd(s.oid, first_clock, last_clock, mv,
                                         req_clock, min_clock)),
         !.last_step_clock = last_clock,
         !.history = << HistoryEntry(first_clock, last_clock,
                                     s.last_position + step_count,
                                     step_count, mv.interval, mv.add) >> \o @,
         !.last_position = @ + step_count,
         !.wrapped = @ \/ ticks < 0 ]

\* add_move(first_clock, mv).  `first_clock + ticks as u64` is a wrapping
\* addition when ticks is negative (a build with overflow checks panics
\* there instead and has no next state); the field wrapped records that it was.
add_move(s, first_clock, mv) ==
  LET addfactor == (mv.count * (mv.count - 1)) \div 2
      ticks == mv.add * addfactor + mv.interval * (mv.count - 1)
      last_clock == first_clock + ticks
      min_clock == s.last_step_clock
      req_clock == IF mv.count = 1 /\ first_clock >= s.last_step_clock + CLOCK_DIFF_MAX
                   THEN first_clock ELSE s.last_step_clock
      step_count == StepCount(s.sdir, mv.count)
  IN [ s EXCEPT
         !.sink = Append(@, QueueStepCmd(s.oid, first_clock, last_clock, mv,
                                         req_clock, min_clock)),
         !.last_step_clock = last_clock,
         !.history = << HistoryEntry(first_clock, last_clock, s.last_position,
                                     step_count, mv.interval, mv.add) >> \o @,
         !.last_position = @ + step_count,
         !.wrapped = @ \/ ticks < 0 ]

\* What a QueueStep was made from: the clocks and dir bits of the steps it
\* covers and last_step_clock before it.
RunTrace(s, count, far) ==
  [ base |-> s.last_step_clock, far |-> far,
    steps |-> SubSeq(s.queue, s.queue_pos + 1, s.queue_pos + count),
    dirs |-> SubSeq(s.queue_dir, s.queue_pos + 1, s.queue_pos + count) ]

\* The `while self.last_step_clock < move_clock` loop of queue_flush; mv is
\* the run compress_bisect_add returns and s1 the compressor after add_move.
RECURSIVE FlushLoop(_, _)
\* FlushAdvance leaving the loop after one run (an `if` for the `while`).
FlushAdvanceOnce(s1, move_clock, advance) ==
  IF s1.queue_pos + advance >= Len(s1.queue)
  THEN [ s1 EXCEPT !.queue = << >>, !.queue_dir = << >>, !.queue_pos = 0 ]
  ELSE [ s1 EXCEPT !.queue_pos = @ + advance ]

\* FlushAdvance clearing the queue one step early (the last queued step is
\* dropped with the run before it).
FlushAdvanceDropsLast(s1, move_clock, advance) ==
  IF s1.queue_pos + advance + 1 >= Len(s1.queue)
  THEN [ s1 EXCEPT !.queue = << >>, !.queue_dir = << >>, !.queue_pos = 0 ]
  ELSE FlushLoop([ s1 EXCEPT !.queue_pos = @ + advance ], move_clock)

FlushAdvance(s1, move_clock, advance) ==
  IF s1.queue_pos + advance >= Len(s1.queue)
  THEN [ s1 EXCEPT !.queue = << >>, !.queue_dir = << >>, !.queue_pos = 0 ]
  ELSE FlushLoop([ s1 EXCEPT !.queue_pos = @ + advance ], move_clock)

\* FlushRun starting the run at last_step_clock instead of one interval
\* after it.
FlushRunFromLastClock(s, move_clock, mv, res) ==
  IF res # "Ok" THEN [ s EXCEPT !.err = res ]
  ELSE FlushAdvance([ add_move(s, s.last_step_clock, mv) EXCEPT
                        !.trace = Append(@, RunTrace(s, mv.count, FALSE)) ],
                    move_clock, mv.count)

\* FlushRun emitting the run check_line rejects before it returns the error.
FlushRunEmitsRejected(s, move_clock, mv, res) ==
  IF res # "Ok"
  THEN [ add_move(s, s.last_step_clock + mv.interval, mv) EXCEPT
           !.err = res, !.trace = Append(@, RunTrace(s, mv.count, FALSE)) ]
  ELSE FlushAdvance([ add_move(s, s.last_step_clock + mv.interval, mv) EXCEPT
                        !.trace = Append(@, RunTrace(s, mv.count, FALSE)) ],
                    move_clock, mv.count)

FlushRun(s, move_clock, mv, res) ==
  IF res # "Ok" THEN [ s EXCEPT !.err = res ]
  ELSE FlushAdvance([ add_move(s, s.last_step_clock + mv.interval, mv) EXCEPT
                        !.trace = Append(@, RunTrace(s, mv.count, FALSE)) ],
                    move_clock, mv.count)

FlushCheck(s, move_clock, mv) == FlushRun(s, move_clock, mv, check_line(s, mv))

\* FlushLoop with `last_step_clock + 1 < move_clock` for its condition.
FlushLoopStopsEarly(s, move_clock) ==
  IF ~(s.last_step_clock + 1 < move_clock) THEN s
  ELSE FlushCheck(s, move_clock, compress_bisect_add(s))

FlushLoop(s, move_clock) ==
  IF ~(s.last_step_clock < move_clock) THEN s
  ELSE FlushCheck(s, move_clock, compress_bisect_add(s))

\* The end of queue_flush, after the loop: an error has returned already.
FlushEnd(s1) ==
  IF s1.err # "Ok" THEN s1
  ELSE IF s1.queue_pos > 0 /\ s1.queue_pos * 2 > Len(s1.queue)
  THEN [ calc_last_step_print_time(s1) EXCEPT
           !.queue = SubSeq(@, s1.queue_pos + 1, Len(@)),
           !.queue_dir = SubSeq(@, s1.queue_pos + 1, Len(@)),
           !.queue_pos = 0 ]
  ELSE calc_last_step_print_time(s1)

queue_flush(s, move_clock) ==
  IF s.queue_pos >= Len(s.queue) THEN s ELSE FlushEnd(FlushLoop(s, move_clock))

\* ------------------------------------------------------- queueing one step
SetNextStepDirCmd(oid, dir, req_clock) ==
  [ type |-> "SetNextStepDir", oid |-> oid, dir |-> dir, req_clock |-> req_clock ]

\* i32 ^ (bool as i32), for the values sdir takes (0 and 1).
XorBit(sdir, invert) == IF invert THEN 1 - sdir ELSE sdir

\* set_next_step_dir after its queue_flush(u64::MAX): s1 is the compressor
\* the flush leaves.
SetDirEnd(s1, sdir) ==
  IF s1.err # "Ok" THEN s1
  ELSE [ s1 EXCEPT
           !.sdir = sdir,
           !.sink = Append(@, SetNextStepDirCmd(s1.oid, XorBit(sdir, s1.invert_sdir) # 0,
                                                s1.last_step_clock)),
           !.trace = Append(@, [ pending |-> Len(s1.queue) - s1.queue_pos ]) ]

\* set_next_step_dir without the flush of the steps queued in the old
\* direction.
set_next_step_dir_keeps_queue(s, sdir) ==
  IF s.sdir = sdir THEN s ELSE SetDirEnd(s, sdir)

set_next_step_dir(s, sdir) ==
  IF s.sdir = sdir THEN s ELSE SetDirEnd(queue_flush(s, U64_MAX), sdir)

\* self.queue.push(step_clock); queue_dir notes the step's own direction
\* (next_step_dir) as a dir bit.
QueuePush(s, step_clock) ==
  [ s EXCEPT !.queue = Append(@, step_clock),
             !.queue_dir = Append(@, XorBit(s.next_step_dir, s.invert_sdir)),
             !.promoted = @ + 1 ]

\* The far run of queue_append_far: interval = (step_clock - last_step_clock) as u32.
FarRun(s1, step_clock) ==
  calc_last_step_print_time(
    [ add_move(s1, step_clock, StepMove(step_clock - s1.last_step_clock, 1, 0)) EXCEPT
        !.trace = Append(@, [ base |-> s1.last_step_clock, far |-> TRUE,
                              steps |-> << step_clock >>,
                              dirs |-> << XorBit(s1.next_step_dir, s1.invert_sdir) >> ]),
        !.promoted = @ + 1 ])

\* queue_append_far after its queue_flush: s1 is the compressor the flush
\* leaves.  The pending step was taken before the flush, so an error of the
\* flush drops it.
FarEnd(s1, step_clock) ==
  IF s1.err # "Ok" THEN [ s1 EXCEPT !.lost = @ + 1 ]
  ELSE IF step_clock >= s1.last_step_clock + CLOCK_DIFF_MAX
  THEN FarRun(s1, step_clock)
  ELSE QueuePush(s1, step_clock)

\* queue_append_far, entered with the pending step taken (step_clock); the
\* flush clock is step_clock.saturating_sub(CLOCK_DIFF_MAX).saturating_add(1).
queue_append_far(s, step_clock) ==
  FarEnd(queue_flush(s, (IF step_clock >= CLOCK_DIFF_MAX
                         THEN step_clock - CLOCK_DIFF_MAX ELSE 0) + 1),
         step_clock)

\* queue_append after its set_next_step_dir: s1 is the compressor that call
\* leaves, with the pending step still in place.
AppendEnd(s1) ==
  IF s1.err # "Ok" THEN s1
  ELSE IF Unwrap(s1.next_step_clock) >= s1.last_step_clock + CLOCK_DIFF_MAX
  THEN queue_append_far([ s1 EXCEPT !.next_step_clock = None ], Unwrap(s1.next_step_clock))
  ELSE QueuePush([ s1 EXCEPT !.next_step_clock = None ], Unwrap(s1.next_step_clock))

\* queue_append.  The queue of the model never reaches its capacity
\* (QUEUE_START_SIZE = 1024), so queue_append_extend is never entered.
queue_append(s) ==
  AppendEnd(IF s.next_step_dir # s.sdir THEN set_next_step_dir(s, s.next_step_dir) ELSE s)

\* --------------------------------------------------------- public methods
Enter(s) == [ s EXCEPT !.err = "Ok" ]

\* The step clock append computes for print_time + step_time = h half ticks.
StepClock(s, h) == s.last_step_clock + F64HalvesAsU64(h - s.last_step_print_time)

\* (diff as f64) < SDS_FILTER_TIME * self.mcu_freq
WithinSdsFilter(diff) == diff * 1000000 < SDS_FILTER_TIME_US * McuFreq

\* append takes the SDS rollback branch.
SdsFires(s, sdir, h) ==
  /\ IsSome(s.next_step_clock)
  /\ sdir # s.next_step_dir
  /\ WithinSdsFilter(StepClock(s, h) - Unwrap(s.next_step_clock))

\* The end of append: the new step becomes the pending one.
SetPending(s1, sdir, step_clock) ==
  IF s1.err # "Ok" THEN s1
  ELSE [ s1 EXCEPT !.next_step_clock = Some(step_clock), !.next_step_dir = sdir ]

\* AppendTo with an SDS branch that drops the pending step only and keeps
\* the new one pending.
AppendToKeepsNewStep(s, sdir, h) ==
  IF SdsFires(s, sdir, h)
  THEN [ s EXCEPT !.next_step_clock = Some(StepClock(s, h)), !.next_step_dir = sdir ]
  ELSE SetPending(IF IsSome(s.next_step_clock) THEN queue_append(s) ELSE s,
                  sdir, StepClock(s, h))

\* AppendTo with an SDS branch that drops both steps but leaves next_step_dir
\* as it was.
AppendToKeepsDir(s, sdir, h) ==
  IF SdsFires(s, sdir, h)
  THEN [ s EXCEPT !.next_step_clock = None ]
  ELSE SetPending(IF IsSome(s.next_step_clock) THEN queue_append(s) ELSE s,
                  sdir, StepClock(s, h))

AppendTo(s, sdir, h) ==
  IF SdsFires(s, sdir, h)
  THEN [ s EXCEPT !.next_step_clock = None, !.next_step_dir = sdir ]
  ELSE SetPending(IF IsSome(s.next_step_clock) THEN queue_append(s) ELSE s,
                  sdir, StepClock(s, h))

append(s0, sdir, h) ==
  [ AppendTo(Enter(s0), sdir, h) EXCEPT !.net = @ + (IF sdir # 0 THEN 1 ELSE -1) ]

CommitOf(s) == IF IsSome(s.next_step_clock) THEN queue_append(s) ELSE s

commit(s0) == CommitOf(Enter(s0))

FlushEndOf(s1, move_clock) ==
  IF s1.err # "Ok" THEN s1 ELSE queue_flush(s1, move_clock)

\* FlushOf that commits the pending step whatever move_clock is.
FlushOfAlwaysCommits(s, move_clock) ==
  FlushEndOf(IF IsSome(s.next_step_clock) THEN queue_append(s) ELSE s, move_clock)

FlushOf(s, move_clock) ==
  FlushEndOf(IF IsSome(s.next_step_clock) /\ move_clock >= Unwrap(s.next_step_clock)
             THEN queue_append(s) ELSE s,
             move_clock)

flush(s0, move_clock) == FlushOf(Enter(s0), move_clock)

\* set_last_position without the history entry.
SetPositionEndNoEntry(s1, clock, pos) ==
  IF s1.err # "Ok" THEN s1 ELSE [ s1 EXCEPT !.last_position = pos ]

\* set_last_position after its flush(u64::MAX).
SetPositionEnd(s1, clock, pos) ==
  IF s1.err # "Ok" THEN s1
  ELSE [ s1 EXCEPT
           !.last_position = pos,
           !.history = << HistoryEntry(clock, clock, pos, 0, 0, 0) >> \o @ ]

set_last_position(s0, clock, pos) == SetPositionEnd(flush(s0, U64_MAX), clock, pos)

\* reset after its flush(u64::MAX).
ResetEnd(s1, clock) ==
  IF s1.err # "Ok" THEN s1
  ELSE calc_last_step_print_time([ s1 EXCEPT !.last_step_clock = clock, !.sdir = -1 ])

reset(s0, clock) == ResetEnd(flush(s0, U64_MAX), clock)

\* set_invert_sdir without the `self.sdir ^= 1`.
set_invert_sdir_keeps_sdir(s, invert) ==
  [ s EXCEPT !.invert_sdir = invert ]

set_invert_sdir(s, invert) ==
  IF s.invert_sdir # invert
  THEN [ s EXCEPT !.invert_sdir = invert,
                  !.sdir = IF s.sdir >= 0 THEN 1 - s.sdir ELSE @ ]
  ELSE s

\* The loop of expire_history popping the entries that start by end_clock.
RECURSIVE ExpireLoopByFirstClock(_, _)
ExpireLoopByFirstClock(history, end_clock) ==
  IF history = << >> THEN history
  ELSE IF history[Len(history)].first_clock > end_clock THEN history
  ELSE ExpireLoopByFirstClock(SubSeq(history, 1, Len(history) - 1), end_clock)

\* The loop of expire_history: pop entries off the back.
RECURSIVE ExpireLoop(_, _)
ExpireLoop(history, end_clock) ==
  IF history = << >> THEN history
  ELSE IF history[Len(history)].last_clock > end_clock THEN history
  ELSE ExpireLoop(SubSeq(history, 1, Len(history) - 1), end_clock)

expire_history(s, end_clock) ==
  [ s EXCEPT !.history = ExpireLoop(@, end_clock) ]

\* ------------------------------------------------------ find_past_position
\* f64 arithmetic.  A value is a pair << n, s >> standing for n / 2^s; an
\* operation that is exact at the source's widths (the conversions of
\* interval, add and ticks, 0.5 * add, interval - 0.5 * add, 4 * a * c) is
\* computed exactly, and one that rounds there (b * b, the subtraction of
\* 4ac, sqrt, the subtraction of b, the division) rounds to MantBits
\* significant bits, to nearest, ties to even.
Abs(n) == IF n < 0 THEN -n ELSE n

RECURSIVE BitLen(_)
BitLen(n) == IF n = 0 THEN 0 ELSE 1 + BitLen(n \div 2)

\* m > 0 of more than MantBits bits, rounded to a multiple of unit.
RoundTo(m, unit, sticky) ==
  IF 2 * (m % unit) > unit
     \/ (2 * (m % unit) = unit /\ (sticky \/ (m \div unit) % 2 = 1))
  THEN ((m \div unit) + 1) * unit
  ELSE (m \div unit) * unit

RoundMagnitude(m, sticky) ==
  IF BitLen(m) <= MantBits THEN m
  ELSE RoundTo(m, 2 ^ (BitLen(m) - MantBits), sticky)

\* The f64 nearest to n / 2^s.
F64Round(n, s) ==
  << (IF n < 0 THEN -1 ELSE 1) * RoundMagnitude(Abs(n), FALSE), s >>

\* floor of the square root of n >= 0, by bisection.
RECURSIVE ISqrtIn(_, _, _)
ISqrtIn(n, lo, hi) ==
  IF lo >= hi THEN lo
  ELSE IF ((lo + hi + 1) \div 2) * ((lo + hi + 1) \div 2) <= n
  THEN ISqrtIn(n, (lo + hi + 1) \div 2, hi)
  ELSE ISqrtIn(n, lo, ((lo + hi + 1) \div 2) - 1)

ISqrt(n) == ISqrtIn(n, 0, Min(n, 46340))

\* The least t >= from with n * 4^t >= 4^MantBits (n > 0).
RECURSIVE SqrtScale(_, _)
SqrtScale(n, from) ==
  IF n * (4 ^ from) >= 4 ^ MantBits THEN from ELSE SqrtScale(n, from + 1)

\* sqrt of the integer x, whose floor root has more than MantBits bits,
\* rounded to a multiple of unit.
SqrtRoundTo(x, root, unit) ==
  IF 4 * x > ((2 * (root \div unit) + 1) * unit) * ((2 * (root \div unit) + 1) * unit)
     \/ (4 * x = ((2 * (root \div unit) + 1) * unit) * ((2 * (root \div unit) + 1) * unit)
         /\ (root \div unit) % 2 = 1)
  THEN ((root \div unit) + 1) * unit
  ELSE (root \div unit) * unit

SqrtRounded(x, root) == SqrtRoundTo(x, root, 2 ^ (BitLen(root) - MantBits))

SqrtScaled(n, t) == << SqrtRounded(n * (4 ^ t), ISqrt(n * (4 ^ t))), t >>

\* f64::sqrt of n / 4 (n >= 0): sqrt(n) / 2.
F64SqrtOfQuarters(n) ==
  IF n = 0 THEN << 0, 1 >>
  ELSE << SqrtScaled(n, SqrtScale(n, 0))[1], SqrtScaled(n, SqrtScale(n, 0))[2] + 1 >>

\* The least t >= from with n * 2^t >= m * 2^MantBits (n, m > 0).
RECURSIVE QuotScale(_, _, _)
QuotScale(n, m, from) ==
  IF n * (2 ^ from) >= m * (2 ^ MantBits) THEN from ELSE QuotScale(n, m, from + 1)

QuotScaled(n, m, t) ==
  RoundMagnitude((n * (2 ^ t)) \div m, (n * (2 ^ t)) % m # 0) \div (2 ^ t)

\* `(n as f64 / m as f64) as i64` for n >= 0 and m > 0: the f64 quotient,
\* truncated.
QuotAsI64(n, m) == IF n = 0 THEN 0 ELSE QuotScaled(n, m, QuotScale(n, m, 0))

\* `(x / d) as i64` for the f64 x = n / 2^s and the integer d # 0.
F64QuotAsI64(x, d) ==
  (IF (x[1] < 0) = (d < 0) THEN 1 ELSE -1) * QuotAsI64(Abs(x[1]), Abs(d) * (2 ^ x[2]))

\* The quadratic solve of find_past_position with a = add/2,
\* b = interval - add/2 = b2/2 and c = -ticks:
\*   bb   = b * b                 (b2 * b2 quarters, rounded)
\*   disc = bb - 4ac              (bb + 2 * add * ticks, rounded)
\*   root = disc.sqrt()           (NaN for a negative disc; NaN as i64 = 0)
\*   ((root - b) / (2a)) as i64   (the difference and the quotient rounded)
SolveFromRoot(root, b2, add) ==
  F64QuotAsI64(F64Round(root[1] - b2 * (2 ^ (root[2] - 1)), root[2]), add)

SolveFromDisc(disc, b2, add) ==
  IF disc[1] < 0 THEN 0 ELSE SolveFromRoot(F64SqrtOfQuarters(disc[1]), b2, add)

SolveFromSquare(bb, b2, add, ticks) ==
  SolveFromDisc(F64Round(bb[1] + 8 * add * ticks, 2), b2, add)

QuadraticSolve(b2, add, ticks) == SolveFromSquare(F64Round(b2 * b2, 2), b2, add, ticks)

\* The offset find_past_position computes inside a run:
\*   add = 0:  (ticks as f64 / interval as f64) as i64
\*   else:     (((b*b - 4ac).sqrt() - b) / (2a)) as i64
\* A division by an interval of 0 gives an infinity, which `as i64`
\* saturates.
RunOffset(interval, add, ticks) ==
  IF add = 0
  THEN IF interval = 0 THEN (IF ticks = 0 THEN 0 ELSE U64_MAX)
       ELSE F64QuotAsI64(<< ticks, 0 >>, interval)
  ELSE QuadraticSolve(2 * interval - add, add, ticks)

\* The loop of find_past_position over the history, newest entry first.
RECURSIVE FindLoop(_, _, _, _)
FindLoop(history, i, clock, last_position) ==
  IF i > Len(history) THEN last_position
  ELSE
    LET entry == history[i]
        ticks == (clock - entry.first_clock) + entry.interval
        offset == RunOffset(entry.interval, entry.add, ticks)
    IN IF clock < entry.first_clock
       THEN FindLoop(history, i + 1, clock, entry.start_position)
       ELSE IF clock >= entry.last_clock
       THEN entry.start_position + entry.step_count
       ELSE IF entry.step_count < 0
       THEN entry.start_position - offset
       ELSE entry.start_position + offset

find_past_position(s, clock) == FindLoop(s.history, 1, clock, s.last_position)

last_position(s) == s.last_position

last_step_clock(s) == s.last_step_clock

\* ------------------------------------------------------------ the trap queue
\* scherzo-core's TrapQueue (crates/scherzo-core/src/trap_queue.rs), named
\* trapq_* after the Klipper helper it ports.  A queue is a record of the two
\* deques of the struct: moves, with the head sentinel first and the tail
\* sentinel last, and history, front (newest) first.  Every f64 of the model
\* is a small integer (times in seconds), on which the additions,
\* subtractions, products and comparisons of the source are exact.
Coord(x, y, z) == [ x |-> x, y |-> y, z |-> z ]

\* Move::default().
DefaultMove ==
  [ print_time |-> 0, move_t |-> 0, start_v |-> 0, half_accel |-> 0,
    start_pos |-> Coord(0, 0, 0), axes_r |-> Coord(0, 0, 0) ]

move_get_distance(m, move_time) == (m.start_v + m.half_accel * move_time) * move_time

move_get_coord(m, move_time) ==
  Coord(m.start_pos.x + m.axes_r.x * move_get_distance(m, move_time),
        m.start_pos.y + m.axes_r.y * move_get_distance(m, move_time),
        m.start_pos.z + m.axes_r.z * move_get_distance(m, move_time))

\* The PullMove that extract_old builds from a move.
PullMove(m) ==
  [ print_time |-> m.print_time, move_t |-> m.move_t, start_v |-> m.start_v,
    accel |-> 2 * m.half_accel,
    start_x |-> m.start_pos.x, start_y |-> m.start_pos.y, start_z |-> m.start_pos.z,
    x_r |-> m.axes_r.x, y_r |-> m.axes_r.y, z_r |-> m.axes_r.z ]

\* TrapQueue::new().
NewTrapQueue ==
  [ moves |-> << [ DefaultMove EXCEPT !.print_time = -1 ],
                 [ DefaultMove EXCEPT !.print_time = NEVER_TIME, !.move_t = NEVER_TIME ] >>,
    history |-> << >> ]

\* The place of the tail sentinel, and of the head sentinel, in moves
\* (sequences count from 1).
tail_index(q) == Len(q.moves)

head_index(q) == 1

\* The moves between the sentinels, oldest first.
get_active_moves(q) == SubSeq(q.moves, 2, Len(q.moves) - 1)

active_len(q) == Len(q.moves) - 2

history_len(q) == Len(q.history)

tail_sentinel(q) == q.moves[tail_index(q)]

\* VecDeque::insert(index, value), the index counted from 1.
InsertAt(seq, index, value) ==
  SubSeq(seq, 1, index - 1) \o << value >> \o SubSeq(seq, index, Len(seq))

\* VecDeque::remove(index), the index counted from 1.
RemoveAt(seq, index) == SubSeq(seq, 1, index - 1) \o SubSeq(seq, index + 1, Len(seq))

MoveEnd(m) == m.print_time + m.move_t

\* check_sentinels without the update of start_pos.
trapq_check_sentinels_time_only(q) ==
  IF tail_sentinel(q).print_time # 0 THEN q
  ELSE IF tail_index(q) - 1 = head_index(q)
  THEN [ q EXCEPT !.moves[tail_index(q)].print_time = NEVER_TIME,
                  !.moves[tail_index(q)].move_t = NEVER_TIME ]
  ELSE [ q EXCEPT !.moves[tail_index(q)].print_time = MoveEnd(q.moves[tail_index(q) - 1]),
                  !.moves[tail_index(q)].move_t = 0 ]

\* check_sentinels with the tail put at the start of the last active move.
trapq_check_sentinels_at_start(q) ==
  IF tail_sentinel(q).print_time # 0 THEN q
  ELSE IF tail_index(q) - 1 = head_index(q)
  THEN [ q EXCEPT !.moves[tail_index(q)].print_time = NEVER_TIME,
                  !.moves[tail_index(q)].move_t = NEVER_TIME ]
  ELSE [ q EXCEPT !.moves[tail_index(q)].print_time = q.moves[tail_index(q) - 1].print_time,
                  !.moves[tail_index(q)].move_t = 0,
                  !.moves[tail_index(q)].start_pos = q.moves[tail_index(q) - 1].start_pos ]

trapq_check_sentinels(q) ==
  IF tail_sentinel(q).print_time # 0 THEN q
  ELSE IF tail_index(q) - 1 = head_index(q)
  THEN [ q EXCEPT !.moves[tail_index(q)].print_time = NEVER_TIME,
                  !.moves[tail_index(q)].move_t = NEVER_TIME ]
  ELSE [ q EXCEPT !.moves[tail_index(q)].print_time = MoveEnd(q.moves[tail_index(q) - 1]),
                  !.moves[tail_index(q)].move_t = 0,
                  !.moves[tail_index(q)].start_pos =
                      move_get_coord(q.moves[tail_index(q) - 1], q.moves[tail_index(q) - 1].move_t) ]

\* The null move add_move fills the gap between prev and m with.
NullMoveTime(prev, m) ==
  IF prev.print_time <= 0 /\ m.print_time > MAX_NULL_MOVE
  THEN m.print_time - MAX_NULL_MOVE
  ELSE MoveEnd(prev)

NullMove(prev, m) ==
  [ DefaultMove EXCEPT !.start_pos = m.start_pos,
                       !.print_time = NullMoveTime(prev, m),
                       !.move_t = m.print_time - NullMoveTime(prev, m) ]

\* The tail sentinel marked stale.
MarkTailStale(q) ==
  [ q EXCEPT !.moves[tail_index(q)].print_time = 0,
             !.moves[tail_index(q)].move_t = 0 ]

InsertBeforeTail(q, m) == [ q EXCEPT !.moves = InsertAt(@, tail_index(q), m) ]

FillGap(q, prev, m) ==
  IF MoveEnd(prev) < m.print_time THEN InsertBeforeTail(q, NullMove(prev, m)) ELSE q

trapq_add_move(q, m) ==
  MarkTailStale(InsertBeforeTail(FillGap(q, q.moves[tail_index(q) - 1], m), m))

\* 0.5 * accel, exact for the even accelerations of the model.
HalfOf(accel) == accel \div 2

\* The three segments of append; a is the record of its arguments.
\* AppendDecel with the acceleration of the accel segment.
AppendDecelAccelerates(q, a, cur_time, cur_pos) ==
  IF a.decel_t > 0
  THEN trapq_add_move(q, [ print_time |-> cur_time, move_t |-> a.decel_t,
                           start_v |-> a.cruise_v, half_accel |-> HalfOf(a.accel),
                           start_pos |-> cur_pos, axes_r |-> a.axes_r ])
  ELSE q

AppendDecel(q, a, cur_time, cur_pos) ==
  IF a.decel_t > 0
  THEN trapq_add_move(q, [ print_time |-> cur_time, move_t |-> a.decel_t,
                           start_v |-> a.cruise_v, half_accel |-> -HalfOf(a.accel),
                           start_pos |-> cur_pos, axes_r |-> a.axes_r ])
  ELSE q

CruiseMove(a, cur_time, cur_pos) ==
  [ print_time |-> cur_time, move_t |-> a.cruise_t, start_v |-> a.cruise_v,
    half_accel |-> 0, start_pos |-> cur_pos, axes_r |-> a.axes_r ]

AppendCruise(q, a, cur_time, cur_pos) ==
  IF a.cruise_t > 0
  THEN AppendDecel(trapq_add_move(q, CruiseMove(a, cur_time, cur_pos)), a,
                   cur_time + a.cruise_t,
                   move_get_coord(CruiseMove(a, cur_time, cur_pos), a.cruise_t))
  ELSE AppendDecel(q, a, cur_time, cur_pos)

AccelMove(a) ==
  [ print_time |-> a.print_time, move_t |-> a.accel_t, start_v |-> a.start_v,
    half_accel |-> HalfOf(a.accel), start_pos |-> a.start_pos, axes_r |-> a.axes_r ]

trapq_append(q, a) ==
  IF a.accel_t > 0
  THEN AppendCruise(trapq_add_move(q, AccelMove(a)), a,
                    a.print_time + a.accel_t, move_get_coord(AccelMove(a), a.accel_t))
  ELSE AppendCruise(q, a, a.print_time, a.start_pos)

\* A move with a velocity or an acceleration; finalize_moves keeps only these.
IsNullValued(m) == m.start_v = 0 /\ m.half_accel = 0

\* The first loop of finalize_moves: move the expired moves to the history.
EvictOne(q, moved) ==
  [ q EXCEPT !.moves = RemoveAt(@, 2),
             !.history = IF ~IsNullValued(moved) THEN << moved >> \o @ ELSE @ ]

\* The first loop with `>=` for `>`: a move that ends at print_time stays.
RECURSIVE EvictLoopBefore(_, _)
EvictLoopBefore(q, print_time) ==
  IF Len(q.moves) > 2 /\ ~(MoveEnd(q.moves[2]) >= print_time)
  THEN EvictLoopBefore(EvictOne(q, q.moves[2]), print_time)
  ELSE q

RECURSIVE EvictLoop(_, _)
EvictLoop(q, print_time) ==
  IF Len(q.moves) > 2 /\ ~(MoveEnd(q.moves[2]) > print_time)
  THEN EvictLoop(EvictOne(q, q.moves[2]), print_time)
  ELSE q

ResetTail(q) ==
  IF Len(q.moves) = 2
  THEN [ q EXCEPT !.moves[tail_index(q)].print_time = NEVER_TIME,
                  !.moves[tail_index(q)].move_t = NEVER_TIME ]
  ELSE q

\* The last loop of finalize_moves: drop history from the back.
RECURSIVE TrimLoop(_, _, _)
TrimLoop(history, latest, clear_history_time) ==
  IF Len(history) > 1
  THEN IF MoveEnd(history[Len(history)]) > clear_history_time THEN history
       ELSE IF history[Len(history)] = latest THEN history
       ELSE TrimLoop(SubSeq(history, 1, Len(history) - 1), latest, clear_history_time)
  ELSE history

TrimHistory(q, clear_history_time) ==
  IF q.history # << >>
  THEN [ q EXCEPT !.history = TrimLoop(@, @[1], clear_history_time) ]
  ELSE q

trapq_finalize_moves(q, print_time, clear_history_time) ==
  TrimHistory(ResetTail(EvictLoop(q, print_time)), clear_history_time)

\* The loop of set_position: drop the history at or after print_time and cut
\* the entry that spans it.
RECURSIVE PopLoop(_, _)
PopLoop(history, print_time) ==
  IF history = << >> THEN history
  ELSE IF history[1].print_time < print_time
  THEN IF MoveEnd(history[1]) > print_time
       THEN [ history EXCEPT ![1].move_t = print_time - history[1].print_time ]
       ELSE history
  ELSE PopLoop(Tail(history), print_time)

PositionMarker(print_time, pos) ==
  [ DefaultMove EXCEPT !.print_time = print_time, !.start_pos = pos ]

MarkPosition(q, print_time, pos) ==
  [ q EXCEPT !.history = << PositionMarker(print_time, pos) >> \o PopLoop(@, print_time) ]

trapq_set_position(q, print_time, pos) ==
  MarkPosition(trapq_finalize_moves(q, NEVER_TIME, 0), print_time, pos)

\* One of the two loops of extract_old over seq, from place i down to place
\* low: skip a move that starts after end_time, stop at one that ends before
\* start_time, stop when the result holds max entries after a push.
RECURSIVE ExtractLoop(_, _, _, _, _, _, _)
ExtractPush(seq, low, i, pushed, max, start_time, end_time) ==
  IF Len(pushed) >= max THEN pushed
  ELSE ExtractLoop(seq, low, i - 1, pushed, max, start_time, end_time)

ExtractLoop(seq, low, i, result, max, start_time, end_time) ==
  IF i < low THEN result
  ELSE IF seq[i].print_time > end_time
  THEN ExtractLoop(seq, low, i - 1, result, max, start_time, end_time)
  ELSE IF MoveEnd(seq[i]) < start_time THEN result
  ELSE ExtractPush(seq, low, i, Append(result, PullMove(seq[i])), max, start_time, end_time)

\* for i in (1..moves.len() - 1).rev()
ExtractActive(q, max, start_time, end_time) ==
  ExtractLoop(q.moves, 2, Len(q.moves) - 1, << >>, max, start_time, end_time)

\* for m in history.iter().rev(): from the back of the history to its front.
trapq_extract_old(q, max, start_time, end_time) ==
  ExtractLoop(q.history, 1, Len(q.history),
              ExtractActive(q, max, start_time, end_time), max, start_time, end_time)

\* ------------------------------------------------------ the iterative solver
\* itersolve.rs.  The times of the solver and of the moves it reads are
\* integers, in half ticks of the compressor's clock, and positions are
\* integers: an f64 operation whose result is not on that grid is rounded to
\* it (RoundDiv, BisectTime, SeekTimeDelta), as the source's is rounded to an
\* f64.  The thresholds of the source are scaled to the grid: TIME_EPS and
\* POS_EPS stand for its 0.000000001 on times and on positions, DIR_EPS for
\* its 0.000000010, SEEK_TIME_RESET for its 0.000100.
Max(a, b) == IF a > b THEN a ELSE b

\* n / d rounded to the nearest integer (d # 0).
RoundDiv(n, d) ==
  IF d > 0 THEN (2 * n + d) \div (2 * d) ELSE (2 * (-n) + (-d)) \div (2 * (-d))

\* IterativeSolver::new.  ranges and past are bookkeeping of the model: the
\* range solves of the latest generate_steps call, each with its move, its
\* bounds, the absolute times of the steps it appended and the number of
\* commands the compressor pushed during it, and those of the calls before;
\* timely says that no move was added to the queue with a print_time before
\* the flush_time of the latest call.
IterativeSolverNew(step_dist, active_flags, gen_steps_pre_active, gen_steps_post_active) ==
  [ step_dist |-> step_dist,
    commanded_pos |-> 0,
    last_flush_time |-> 0,
    last_move_time |-> 0,
    active_flags |-> active_flags,
    gen_steps_pre_active |-> gen_steps_pre_active,
    gen_steps_post_active |-> gen_steps_post_active,
    calls |-> 0,
    ranges |-> << >>,
    past |-> << >>,
    timely |-> TRUE ]

\* LinearCallback of the source's tests.
calc_position(m, move_time) ==
  m.start_pos.x + m.axes_r.x * ((m.start_v + m.half_accel * move_time) * move_time)

check_active(k, m) ==
  \/ "x" \in k.active_flags /\ m.axes_r.x # 0
  \/ "y" \in k.active_flags /\ m.axes_r.y # 0
  \/ "z" \in k.active_flags /\ m.axes_r.z # 0

get_last_dir(s) == IF s.sdir < 0 THEN FALSE ELSE s.sdir # 0

\* 0.5 * step_dist, exact for the even step_dist of the model.
HalfStep(k) == k.step_dist \div 2

TimePos(time, position) == [ time |-> time, position |-> position ]

\* target +/- half_step +/- half_step.
NextTarget(target, sdir, half_step) ==
  IF sdir THEN target + half_step + half_step ELSE target - half_step - half_step

RangeStartTime(m, abs_start) == Max(abs_start - m.print_time, 0)

\* The end of a range solve without the abs_end bound.
RangeEndTimeWholeMove(m, abs_end) == m.move_t

RangeEndTime(m, abs_end) == Min(abs_end - m.print_time, m.move_t)

\* The locals of gen_steps_range before its loop; w holds the solver (sk) and
\* the compressor (sc), steps the absolute times of the steps appended.
RangeLocals(w, start, end) ==
  [ w |-> w,
    old_guess |-> TimePos(start, w.sk.commanded_pos),
    guess |-> TimePos(start, w.sk.commanded_pos),
    sdir |-> get_last_dir(w.sc),
    is_dir_change |-> FALSE,
    have_bracket |-> FALSE,
    check_oscillate |-> FALSE,
    target |-> w.sk.commanded_pos
                 + (IF get_last_dir(w.sc) THEN HalfStep(w.sk) ELSE -HalfStep(w.sk)),
    last_time |-> start,
    low_time |-> start,
    high_time |-> Min(start + SEEK_TIME_RESET, end),
    steps |-> << >> ]

\* The secant guess is a number (not NaN or an infinity) inside the bounds.
SecantDefined(l) == l.guess.position # l.old_guess.position

SecantTime(l) ==
  RoundDiv(l.old_guess.time * (l.guess.position - l.target)
             - l.guess.time * (l.old_guess.position - l.target),
           l.guess.position - l.old_guess.position)

SecantInBounds(l) ==
  /\ SecantDefined(l)
  /\ SecantTime(l) > l.low_time
  /\ SecantTime(l) < l.high_time

BisectTime(l) == (l.low_time + l.high_time) \div 2

\* 1.5 * (guess.time - last_time), at least TIME_EPS, and at most
\* SEEK_TIME_RESET after a direction change.
SeekTimeDelta(l) ==
  IF l.is_dir_change
  THEN Min(Max((3 * (l.guess.time - l.last_time)) \div 2, TIME_EPS), SEEK_TIME_RESET)
  ELSE Max((3 * (l.guess.time - l.last_time)) \div 2, TIME_EPS)

\* "Reset bounds checking", after a step was submitted.
ResetBounds(l, end) ==
  [ l EXCEPT !.last_time = l.guess.time,
             !.low_time = l.guess.time,
             !.high_time = Min(l.guess.time + SeekTimeDelta(l), end),
             !.is_dir_change = FALSE,
             !.have_bracket = FALSE,
             !.check_oscillate = FALSE ]

\* "Guess does not look close enough - update bounds".
UpdateBounds(l, rel_dist) ==
  IF rel_dist > 0
  THEN [ l EXCEPT
           !.old_guess = IF l.have_bracket /\ l.old_guess.time <= l.low_time
                            /\ l.check_oscillate
                         THEN l.guess ELSE @,
           !.check_oscillate = IF l.have_bracket /\ l.old_guess.time <= l.low_time
                               THEN TRUE ELSE @,
           !.high_time = l.guess.time,
           !.have_bracket = TRUE ]
  ELSE IF rel_dist < -(HalfStep(l.w.sk) + HalfStep(l.w.sk) + DIR_EPS)
  THEN [ l EXCEPT
           !.sdir = ~l.sdir,
           !.target = NextTarget(l.target, ~l.sdir, HalfStep(l.w.sk)),
           !.low_time = l.last_time,
           !.high_time = l.guess.time,
           !.is_dir_change = TRUE,
           !.have_bracket = TRUE,
           !.check_oscillate = FALSE ]
  ELSE [ l EXCEPT !.low_time = l.guess.time ]

RECURSIVE RangeLoop(_, _, _)
\* "Found next step - submit it": sc.append, then the next target.
RangeSubmitted(l, m, end, sc2) ==
  IF sc2.err # "Ok"
  THEN [ l EXCEPT !.w.sc = sc2, !.steps = Append(@, m.print_time + l.guess.time) ]
  ELSE RangeLoop(ResetBounds([ l EXCEPT
                                 !.w.sc = sc2,
                                 !.steps = Append(@, m.print_time + l.guess.time),
                                 !.target = NextTarget(l.target, l.sdir, HalfStep(l.w.sk)) ],
                             end),
                 m, end)

RangeSubmit(l, m, end) ==
  RangeSubmitted(l, m, end,
                 append(l.w.sc, IF l.sdir THEN 1 ELSE 0, m.print_time + l.guess.time))

\* l2 has the bounds updated; guess again, after a commit when the stepper
\* fully reaches the step position, or submit the step.
RangeRetry(l2, m, end, rel_dist) ==
  IF ~l2.have_bracket \/ l2.high_time - l2.low_time > TIME_EPS
  THEN RangeLoop(IF ~l2.is_dir_change /\ rel_dist >= -HalfStep(l2.w.sk)
                 THEN [ l2 EXCEPT !.w.sc = commit(l2.w.sc) ] ELSE l2,
                 m, end)
  ELSE RangeSubmit(l2, m, end)

\* The loop from "Calculate position at next_time guess" on, l holding the
\* new guess.
RangeJudge(l, m, end, guess_dist) ==
  IF Abs(guess_dist) > POS_EPS
  THEN RangeRetry(UpdateBounds(l, IF l.sdir THEN guess_dist ELSE -guess_dist),
                  m, end, IF l.sdir THEN guess_dist ELSE -guess_dist)
  ELSE RangeSubmit(l, m, end)

RangeEval(l, m, end, next_time) ==
  RangeJudge([ l EXCEPT !.old_guess = l.guess,
                        !.guess = TimePos(next_time, calc_position(m, next_time)) ],
             m, end, calc_position(m, next_time) - l.target)

\* The loop of gen_steps_range; it ends by `break` or by the `?` of a
\* compressor call that failed.
RangeLoop(l, m, end) ==
  IF l.w.sc.err # "Ok" THEN l
  ELSE IF SecantInBounds(l) THEN RangeEval(l, m, end, SecantTime(l))
  ELSE IF l.have_bracket
  THEN RangeEval([ l EXCEPT !.check_oscillate = FALSE ], m, end, BisectTime(l))
  ELSE IF l.guess.time >= end THEN l
  ELSE RangeEval([ l EXCEPT !.high_time = Min(2 * l.high_time - l.last_time, end) ],
                 m, end, l.high_time)

\* The record of a range solve: its arguments, the times of the steps it
\* appended, the commands the compressor pushed during it, whether it
\* returned Ok, the calls of post_step it made, and the place in
\* generate_steps it was called from ("move", "pre" or "post").
RangeRecord(w0, l, m, abs_start, abs_end, post_steps) ==
  [ move |-> m, abs_start |-> abs_start, abs_end |-> abs_end, steps |-> l.steps,
    pushed |-> Len(l.w.sc.sink) - Len(w0.sc.sink),
    ok |-> l.w.sc.err = "Ok", post_steps |-> post_steps, window |-> "move" ]

\* gen_steps_range with post_step called after every sc.append.
RangeDonePostStepEachStep(w0, l, m, abs_start, abs_end) ==
  [ sc |-> l.w.sc,
    sk |-> [ l.w.sk EXCEPT
               !.commanded_pos =
                   IF l.w.sc.err # "Ok" THEN @
                   ELSE l.target - (IF l.sdir THEN HalfStep(l.w.sk) ELSE -HalfStep(l.w.sk)),
               !.ranges = Append(@, RangeRecord(w0, l, m, abs_start, abs_end,
                                                Len(l.steps))) ] ]

\* The end of gen_steps_range: commanded_pos and one call of post_step,
\* unless a compressor call failed.
RangeDone(w0, l, m, abs_start, abs_end) ==
  [ sc |-> l.w.sc,
    sk |-> [ l.w.sk EXCEPT
               !.commanded_pos =
                   IF l.w.sc.err # "Ok" THEN @
                   ELSE l.target - (IF l.sdir THEN HalfStep(l.w.sk) ELSE -HalfStep(l.w.sk)),
               !.ranges = Append(@, RangeRecord(w0, l, m, abs_start, abs_end,
                                                IF l.w.sc.err # "Ok" THEN 0 ELSE 1)) ] ]

gen_steps_range(w, m, abs_start, abs_end) ==
  RangeDone(w,
            RangeLoop(RangeLocals(w, RangeStartTime(m, abs_start), RangeEndTime(m, abs_end)),
                      m, RangeEndTime(m, abs_end)),
            m, abs_start, abs_end)

\* The range solve just recorded was called from the given place.
CalledFrom(w, window) ==
  [ w EXCEPT !.sk.ranges[Len(w.sk.ranges)].window = window ]

\* "Find first move that hasn't been fully processed": the index, from 0, of
\* the first move at or after move_idx that ends after last_flush_time, or
\* moves.len().
RECURSIVE FirstUnprocessed(_, _, _)
FirstUnprocessed(moves, move_idx, last_flush_time) ==
  IF move_idx >= Len(moves) THEN move_idx
  ELSE IF last_flush_time < MoveEnd(moves[move_idx + 1]) THEN move_idx
  ELSE FirstUnprocessed(moves, move_idx + 1, last_flush_time)

\* "Go back and generate steps for skipped moves": the index the first loop
\* leaves in pm_idx.
RECURSIVE SkippedFrom(_, _, _, _)
SkippedFrom(moves, pm_idx, skip_count, abs_start) ==
  IF ~(skip_count > 0 /\ pm_idx > 0) THEN pm_idx
  ELSE IF moves[pm_idx].print_time <= abs_start THEN pm_idx
  ELSE SkippedFrom(moves, pm_idx - 1, skip_count - 1, abs_start)

\* The second loop: the range solves of moves pm_idx to move_idx - 1.
RECURSIVE SkippedRanges(_, _, _, _, _, _)
SkippedRanges(w, moves, pm_idx, move_idx, abs_start, flush_time) ==
  IF w.sc.err # "Ok" \/ ~(pm_idx < move_idx) THEN w
  ELSE SkippedRanges(CalledFrom(gen_steps_range(w, moves[pm_idx + 1], abs_start, flush_time),
                                "pre"),
                     moves, pm_idx + 1, move_idx, abs_start, flush_time)

\* "Must generate steps leading up to stepper activity".
PreActiveStart(w, m, g) ==
  Max(Max(m.print_time - w.sk.gen_steps_pre_active, g.last_flush_time), g.force_steps_time)

PreActive(w, moves, m, g) ==
  IF g.skip_count > 0 /\ w.sk.gen_steps_pre_active > 0
  THEN SkippedRanges(w, moves,
                     SkippedFrom(moves, g.move_idx, g.skip_count, PreActiveStart(w, m, g)),
                     g.move_idx, PreActiveStart(w, m, g), g.flush_time)
  ELSE w

RECURSIVE GenLoop(_, _, _)
\* An active move: w1 is left by the pre-active range solves, w2 by the
\* move's own.
ActiveDone(w2, moves, m, g) ==
  IF w2.sc.err # "Ok" THEN w2
  ELSE IF MoveEnd(m) >= g.flush_time
  THEN [ w2 EXCEPT !.sk.last_move_time = g.flush_time ]
  ELSE GenLoop([ w2 EXCEPT !.sk.last_move_time = MoveEnd(m) ], moves,
               [ g EXCEPT !.skip_count = 0,
                          !.force_steps_time = MoveEnd(m) + w2.sk.gen_steps_post_active,
                          !.move_idx = @ + 1 ])

ActiveMove(w1, moves, m, g) ==
  IF w1.sc.err # "Ok" THEN w1
  ELSE ActiveDone(gen_steps_range(w1, m, g.last_flush_time, g.flush_time), moves, m, g)

\* A move that is not active: w1 is left by its range solve, if it had one.
InactiveDone(w1, moves, m, g, skip_count) ==
  IF w1.sc.err # "Ok" THEN w1
  ELSE IF g.flush_time + w1.sk.gen_steps_pre_active <= MoveEnd(m) THEN w1
  ELSE GenLoop(w1, moves, [ g EXCEPT !.skip_count = skip_count, !.move_idx = @ + 1 ])

\* InactiveMove with a move on the boundary of the post-active window solved.
InactiveMoveOnBoundary(w, moves, m, g) ==
  IF m.print_time <= g.force_steps_time
  THEN InactiveDone(CalledFrom(gen_steps_range(w, m, g.last_flush_time,
                                               Min(g.force_steps_time, g.flush_time)),
                               "post"),
                    moves, m, g, 1)
  ELSE InactiveDone(w, moves, m, g, g.skip_count + 1)

InactiveMove(w, moves, m, g) ==
  IF m.print_time < g.force_steps_time
  THEN InactiveDone(CalledFrom(gen_steps_range(w, m, g.last_flush_time,
                                               Min(g.force_steps_time, g.flush_time)),
                               "post"),
                    moves, m, g, 1)
  ELSE InactiveDone(w, moves, m, g, g.skip_count + 1)

\* The loop of generate_steps over the moves from move_idx on.
GenLoop(w, moves, g) ==
  IF g.move_idx >= Len(moves) THEN w
  ELSE IF check_active(w.sk, moves[g.move_idx + 1])
  THEN ActiveMove(PreActive(w, moves, moves[g.move_idx + 1], g),
                  moves, moves[g.move_idx + 1], g)
  ELSE InactiveMove(w, moves, moves[g.move_idx + 1], g)

\* generate_steps after `self.last_flush_time = flush_time`.
GenFrom(w, moves, last_flush_time, flush_time) ==
  IF FirstUnprocessed(moves, 0, last_flush_time) >= Len(moves) THEN w
  ELSE GenLoop(w, moves,
               [ move_idx |-> FirstUnprocessed(moves, 0, last_flush_time),
                 force_steps_time |-> w.sk.last_move_time + w.sk.gen_steps_post_active,
                 skip_count |-> 0,
                 last_flush_time |-> last_flush_time,
                 flush_time |-> flush_time ])

\* generate_steps(sc, trapq, flush_time): the solver and the compressor it
\* leaves.
generate_steps(k, s, trapq, flush_time) ==
  GenFrom([ sk |-> [ k EXCEPT !.last_flush_time = flush_time,
                              !.calls = @ + 1, !.ranges = << >>,
                              !.past = @ \o k.ranges ],
            sc |-> Enter(s) ],
          get_active_moves(trapq), k.last_flush_time, flush_time)

\* ------------------------------------------------------------- the machine
\* The latest clock the compressor knows of: the pending step's, else the
\* last queued step's, else last_step_clock.
Now(s) ==
  IF IsSome(s.next_step_clock) THEN Unwrap(s.next_step_clock)
  ELSE IF Len(s.queue) > s.queue_pos THEN s.queue[Len(s.queue)]
  ELSE s.last_step_clock

\* The times of a new step relative to Now, in half ticks: 2 ticks back, the
\* same tick, 1 tick and 3 ticks (2.5, rounded) later; 8 ticks later; and
\* far points: CLOCK_DIFF_MAX, the interval limit and past the u32 modulus.
ShortDeltas == { -4, 0, 2, 5 }

NearDeltas == ShortDeltas \cup { 16 }

FarDeltas == { 2 * CLOCK_DIFF_MAX, 2 * INTERVAL_LIMIT, 2 * U32_MOD + 2 }

AppendTimes(s, deltas) == { h \in { 2 * Now(s) + d : d \in deltas } : h >= 0 }

FlushClocks(s) == { s.last_step_clock + 1, U64_MAX }

\* The state after a successful flush(u64::MAX), in which reset and
\* set_last_position act.
Flushed(s) == flush(s, U64_MAX)

ResetClocks(s) == { 0, Flushed(s).last_step_clock + 3 }

PositionClocks(s) == { Flushed(s).last_step_clock, Flushed(s).last_step_clock + 2 }

Positions == { 10 }

ExpireClocks(s) == { s.history[i].last_clock : i \in 1..Len(s.history) }

Init ==
  /\ sc = NewCompressor
  /\ appended = 0
  /\ rollbacks = 0
  /\ increasing = TRUE
  /\ admin = 0
  /\ used = { }
  /\ back = FALSE
  /\ tq = NewTrapQueue
  /\ tqcalls = 0
  /\ tqplain = TRUE
  /\ tqlast = "new"
  /\ sk = IterativeSolverNew(2, { "x" }, 0, 0)

AppendWithin(max, deltas) ==
  /\ appended < max
  /\ \E sdir \in { 0, 1 } : \E h \in AppendTimes(sc, deltas) :
       /\ sc' = append(sc, sdir, h)
       /\ rollbacks' = rollbacks + (IF SdsFires(sc, sdir, h) THEN 1 ELSE 0)
       /\ increasing' = (increasing /\ StepClock(sc, h) > Now(sc))
  /\ appended' = appended + 1
  /\ UNCHANGED << admin, used, back >>
  /\ UNCHANGED tqvars

DoAppend == AppendWithin(MaxAppends, NearDeltas \cup FarDeltas)

DoAppendAll == AppendWithin(MaxAppendsAll, ShortDeltas \cup { 2 * CLOCK_DIFF_MAX })

DoCommit ==
  /\ sc' = commit(sc)
  /\ UNCHANGED << appended, rollbacks, increasing, admin, used, back >>
  /\ UNCHANGED tqvars

DoFlush ==
  /\ \E move_clock \in FlushClocks(sc) : sc' = flush(sc, move_clock)
  /\ UNCHANGED << appended, rollbacks, increasing, admin, used, back >>
  /\ UNCHANGED tqvars

DoSetLastPosition ==
  /\ admin < MaxAdmin
  /\ \E clock \in PositionClocks(sc) : \E pos \in Positions :
       /\ sc' = set_last_position(sc, clock, pos)
       /\ back' = (back \/ (sc'.err = "Ok" /\ clock > Flushed(sc).last_step_clock))
  /\ admin' = admin + 1
  /\ used' = used \cup { "set_last_position" }
  /\ UNCHANGED << appended, rollbacks, increasing >>
  /\ UNCHANGED tqvars

DoReset ==
  /\ admin < MaxAdmin
  /\ \E clock \in ResetClocks(sc) :
       /\ sc' = reset(sc, clock)
       /\ back' = (back \/ (sc'.err = "Ok" /\ clock < Flushed(sc).last_step_clock))
  /\ admin' = admin + 1
  /\ used' = used \cup { "reset" }
  /\ UNCHANGED << appended, rollbacks, increasing >>
  /\ UNCHANGED tqvars

DoExpireHistory ==
  /\ admin < MaxAdmin
  /\ \E end_clock \in ExpireClocks(sc) : sc' = expire_history(sc, end_clock)
  /\ admin' = admin + 1
  /\ used' = used \cup { "expire_history" }
  /\ UNCHANGED << appended, rollbacks, increasing, back >>
  /\ UNCHANGED tqvars

DoSetInvertSdir ==
  /\ admin < MaxAdmin
  /\ \E invert \in BOOLEAN : sc' = set_invert_sdir(sc, invert)
  /\ admin' = admin + 1
  /\ used' = used \cup { "set_invert_sdir" }
  /\ UNCHANGED << appended, rollbacks, increasing, back >>
  /\ UNCHANGED tqvars

\* The compressor under append, commit and flush.
Next ==
  \/ DoAppend
  \/ DoCommit
  \/ DoFlush

Spec == Init /\ [][Next]_vars

\* The compressor under every method.
NextAll ==
  \/ DoAppendAll
  \/ DoCommit
  \/ DoFlush
  \/ DoSetLastPosition
  \/ DoReset
  \/ DoExpireHistory
  \/ DoSetInvertSdir

SpecAll == Init /\ [][NextAll]_vars

\* The compressor under append, commit and flush with every step 1, 2 or 3
\* ticks after the one before it.
RunDeltas == { 2, 4, 5 }

DoAppendRun == AppendWithin(MaxAppendsRuns, RunDeltas)

NextRuns ==
  \/ DoAppendRun
  \/ DoCommit
  \/ DoFlush

SpecRuns == Init /\ [][NextRuns]_vars

\* The trap queue under add_move, append, finalize_moves, set_position and
\* check_sentinels.  Moves are added at times 0, 1 and 3 with a move_t of -1,
\* 0 or 1, with and without a velocity.
AddMoves ==
  { [ DefaultMove EXCEPT !.print_time = print_time, !.move_t = move_t,
                         !.start_v = start_v,
                         !.start_pos = Coord(1, 0, 0), !.axes_r = Coord(1, 0, 0) ] :
      print_time \in { 0, 1, 3 }, move_t \in { -1, 0, 1 }, start_v \in { 0, 1 } }

AppendArgs ==
  { [ print_time |-> print_time, accel_t |-> t[1], cruise_t |-> t[2], decel_t |-> t[3],
      start_pos |-> Coord(0, 0, 0), axes_r |-> Coord(1, 0, 0),
      start_v |-> 0, cruise_v |-> 2, accel |-> 2 ] :
      print_time \in { 0, 3 }, t \in { << 1, 1, 1 >>, << 0, 1, 0 >> } }

FinalizeTimes == { 1, 2, 4 }

ClearTimes == { 0, 2 }

SetPositionTimes == { 0, 2 }

DoTqAddMove ==
  /\ tqcalls < MaxTqCalls
  /\ \E m \in AddMoves :
       /\ tq' = trapq_add_move(tq, m)
       /\ tqplain' = (tqplain /\ m.move_t >= 0
                              /\ m.print_time >= MoveEnd(tq.moves[tail_index(tq) - 1]))
  /\ tqcalls' = tqcalls + 1
  /\ tqlast' = "add_move"
  /\ UNCHANGED scvars

DoTqAppend ==
  /\ tqcalls < MaxTqCalls
  /\ \E a \in AppendArgs : tq' = trapq_append(tq, a)
  /\ tqcalls' = tqcalls + 1
  /\ tqplain' = FALSE
  /\ tqlast' = "append"
  /\ UNCHANGED scvars

DoTqFinalizeMoves ==
  /\ tqcalls < MaxTqCalls
  /\ \E print_time \in FinalizeTimes : \E clear_history_time \in ClearTimes :
       tq' = trapq_finalize_moves(tq, print_time, clear_history_time)
  /\ tqcalls' = tqcalls + 1
  /\ tqplain' = FALSE
  /\ tqlast' = "finalize_moves"
  /\ UNCHANGED scvars

DoTqSetPosition ==
  /\ tqcalls < MaxTqCalls
  /\ \E print_time \in SetPositionTimes :
       tq' = trapq_set_position(tq, print_time, Coord(7, 0, 0))
  /\ tqcalls' = tqcalls + 1
  /\ tqplain' = FALSE
  /\ tqlast' = "set_position"
  /\ UNCHANGED scvars

DoTqCheckSentinels ==
  /\ tq' = trapq_check_sentinels(tq)
  /\ tqlast' = "check_sentinels"
  /\ UNCHANGED << tqcalls, tqplain >>
  /\ UNCHANGED scvars

NextTrapQueue ==
  \/ DoTqAddMove
  \/ DoTqAppend
  \/ DoTqFinalizeMoves
  \/ DoTqSetPosition
  \/ DoTqCheckSentinels

SpecTrapQueue == Init /\ [][NextTrapQueue]_vars

\* The end time and the end coordinate of the last active move (0 and the
\* origin for a queue without one).
QueueEndTime(q) == IF active_len(q) = 0 THEN 0 ELSE MoveEnd(q.moves[tail_index(q) - 1])

QueueEndPos(q) ==
  IF active_len(q) = 0 THEN Coord(0, 0, 0)
  ELSE move_get_coord(q.moves[tail_index(q) - 1], q.moves[tail_index(q) - 1].move_t)

\* The moves the planner adds for the solver: 4 units long at one position
\* unit per time unit along +x, -x or +y, from where the queue ends; right
\* behind the queue, after a gap, or overlapping its last move.
SolverMoves(q) ==
  { [ print_time |-> Max(QueueEndTime(q) + gap, 0), move_t |-> 4, start_v |-> 1, half_accel |-> 0,
      start_pos |-> QueueEndPos(q), axes_r |-> axes_r ] :
      gap \in { 0, 2, -2 }, axes_r \in { Coord(1, 0, 0), Coord(-1, 0, 0), Coord(0, 1, 0) } }

\* The steppers: on x or on y, each without or with a pre-active and a
\* post-active window.
Solvers ==
  { IterativeSolverNew(2, active_flags, gen_steps_pre_active, gen_steps_post_active) :
      active_flags \in { { "x" }, { "y" } },
      gen_steps_pre_active \in { 0, 2 }, gen_steps_post_active \in { 0, 2 } }

\* flush_time increases from call to call.
SolverFlushTimes(k) == { k.last_flush_time + 3, k.last_flush_time + 5, k.last_flush_time + 6 }

InitSolver ==
  /\ sc = NewCompressor
  /\ appended = 0
  /\ rollbacks = 0
  /\ increasing = TRUE
  /\ admin = 0
  /\ used = { }
  /\ back = FALSE
  /\ tq = NewTrapQueue
  /\ tqcalls = 0
  /\ tqplain = TRUE
  /\ tqlast = "new"
  /\ sk \in Solvers

DoSolverAddMove ==
  /\ tqcalls < MaxSolverMoves
  /\ \E m \in SolverMoves(tq) :
       /\ tq' = trapq_add_move(tq, m)
       /\ tqplain' = (tqplain /\ m.print_time >= QueueEndTime(tq))
       /\ sk' = [ sk EXCEPT !.timely = @ /\ m.print_time >= sk.last_flush_time ]
  /\ tqcalls' = tqcalls + 1
  /\ tqlast' = "add_move"
  /\ UNCHANGED << sc, appended, rollbacks, increasing, admin, used, back >>

DoGenerateSteps ==
  /\ sk.calls < MaxSolverCalls
  /\ \E flush_time \in SolverFlushTimes(sk) :
       /\ sk' = generate_steps(sk, sc, tq, flush_time).sk
       /\ sc' = generate_steps(sk, sc, tq, flush_time).sc
  /\ UNCHANGED << appended, rollbacks, increasing, admin, used, back >>
  /\ UNCHANGED << tq, tqcalls, tqplain, tqlast >>

\* One stepper: the planner adds moves, the scheduler calls generate_steps
\* and flushes the compressor.
NextSolver ==
  \/ DoSolverAddMove
  \/ DoGenerateSteps
  \/ DoFlush

SpecSolver == InitSolver /\ [][NextSolver]_vars

\* ================================================================ claims
\* The commands of the sink and what each was made from.
Cmds == sc.sink

QueueStepAt == { i \in 1..Len(Cmds) : Cmds[i].type = "QueueStep" }

SetDirAt == { i \in 1..Len(Cmds) : Cmds[i].type = "SetNextStepDir" }

\* The sum of count over the QueueSteps of a sink.
RECURSIVE CountSum(_)
CountSum(sink) ==
  IF sink = << >> THEN 0
  ELSE (IF Head(sink).type = "QueueStep" THEN Head(sink).count ELSE 0) + CountSum(Tail(sink))

\* The offset of the k-th step of a run from the last_step_clock before it,
\* as the MCU replays it.
Reconstruct(cmd, k) == cmd.interval * k + cmd.add * ((k * (k - 1)) \div 2)

\* The true offset of the k-th step of the run at place i of the sink, and
\* the earliest offset it may be replayed at.
TrueOffset(i, k) == sc.trace[i].steps[k] - sc.trace[i].base

PrevOffset(i, k) == IF k = 1 THEN 0 ELSE TrueOffset(i, k - 1)

EarliestOffset(i, k) ==
  TrueOffset(i, k) - Min(sc.max_error, TruncDiv(TrueOffset(i, k) - PrevOffset(i, k), 2))

RunWithinBounds(i) ==
  \A k \in 1..Cmds[i].count :
    /\ Reconstruct(Cmds[i], k) <= TrueOffset(i, k)
    /\ Reconstruct(Cmds[i], k) >= EarliestOffset(i, k)

\* C1: every step of every emitted QueueStep run is replayed within
\* [minp_k, maxp_k]: not after its true offset and at most
\* min(max_error, half the distance to the previous step) before it.
C1_EveryRunWithinBounds == \A i \in QueueStepAt : RunWithinBounds(i)

\* C1 for the runs queue_flush compresses out of the queue (those check_line
\* passes); the far-point run is the one that breaks C1.
C1_CompressedRunsWithinBounds ==
  \A i \in QueueStepAt : ~sc.trace[i].far => RunWithinBounds(i)

\* C2: every QueueStep of the sink has interval in [1, 2^31), add in
\* [-2^15, 2^15) and count in [1, 65535].
C2_FieldRanges ==
  \A i \in QueueStepAt :
    /\ Cmds[i].interval >= 1 /\ Cmds[i].interval < INTERVAL_LIMIT
    /\ Cmds[i].add >= -32768 /\ Cmds[i].add < 32768
    /\ Cmds[i].count >= 1 /\ Cmds[i].count <= 65535

\* Two QueueSteps of the sink with no QueueStep between them.
Consecutive(i, j) ==
  /\ i \in QueueStepAt /\ j \in QueueStepAt /\ i < j
  /\ \A m \in QueueStepAt : ~(i < m /\ m < j)

\* C3: of two consecutive QueueSteps the later one's first_clock is strictly
\* greater than the earlier one's last_clock.
C3_StrictlyAfter ==
  \A i, j \in QueueStepAt : Consecutive(i, j) => Cmds[j].first_clock > Cmds[i].last_clock

\* C3 as amended: the later first_clock is never before the earlier
\* last_clock, and strictly after it when every step was appended with a
\* clock after those of all earlier steps and after last_step_clock.
C3_NotBefore ==
  \A i, j \in QueueStepAt : Consecutive(i, j) =>
    /\ Cmds[j].first_clock >= Cmds[i].last_clock
    /\ increasing => Cmds[j].first_clock > Cmds[i].last_clock

C3_Witness ==
  \E i, j \in QueueStepAt :
    /\ Consecutive(i, j)
    /\ Cmds[j].first_clock = Cmds[i].last_clock
    /\ ~increasing

\* The place of the latest SetNextStepDir before place j of the sink (0: none).
RECURSIVE LastSetDirBefore(_)
LastSetDirBefore(j) ==
  IF j <= 1 THEN 0
  ELSE IF Cmds[j - 1].type = "SetNextStepDir" THEN j - 1
  ELSE LastSetDirBefore(j - 1)

\* The dir bits of the steps of the run at place j are all the same.
OneDirection(j) ==
  \A k \in 1..Len(sc.trace[j].dirs) : sc.trace[j].dirs[k] = sc.trace[j].dirs[1]

\* The SetNextStepDir at place i announces the run at place j.
Announces(i, j) ==
  /\ i > 0
  /\ Cmds[i].oid = Cmds[j].oid
  /\ Cmds[i].dir = (sc.trace[j].dirs[1] # 0)

\* Every run is of one direction, the one the latest SetNextStepDir before
\* it carries, and a SetNextStepDir is pushed with no queued step left.
C4_Prologue ==
  /\ \A j \in QueueStepAt : OneDirection(j) /\ Announces(LastSetDirBefore(j), j)
  /\ \A i \in SetDirAt : sc.trace[i].pending = 0

\* The req_clock of a SetNextStepDir a call pushes is the last_step_clock
\* at that moment: the last_clock of the run the same call pushed just
\* before it, or else the last_step_clock the call started with.
C4_ReqClock ==
  \A i \in (Len(sc.sink) + 1)..Len(sc'.sink) :
    sc'.sink[i].type = "SetNextStepDir" =>
      sc'.sink[i].req_clock =
        IF i - 1 > Len(sc.sink) THEN sc'.sink[i - 1].last_clock ELSE sc.last_step_clock

\* C4: the first QueueStep, and every QueueStep of another direction than
\* the QueueStep before it, comes after a SetNextStepDir of the same oid,
\* pushed once the queue was flushed in full, with dir = sdir XOR invert_sdir
\* and req_clock = last_step_clock; no run holds steps of two directions.
C4_SetNextStepDirPrologue == [](C4_Prologue) /\ [][C4_ReqClock]_vars

\* Two runs of opposite directions, the second announced with the inverted
\* dir bit.
C4_Witness ==
  \E i, j \in QueueStepAt :
    /\ Consecutive(i, j)
    /\ sc.trace[i].dirs[1] # sc.trace[j].dirs[1]
    /\ LastSetDirBefore(j) > i
    /\ sc.invert_sdir

\* C5: after a successful flush(u64::MAX) the counts of the QueueSteps sum
\* to the number of steps promoted from pending to the queue, which is every
\* step appended but the two of each SDS rollback; nothing stays queued.
C5_FlushedCounts(s2) ==
  s2.err = "Ok" =>
    /\ CountSum(s2.sink) = s2.promoted
    /\ s2.promoted = appended - 2 * rollbacks
    /\ s2.next_step_clock = None
    /\ s2.queue = << >>

C5_NoStepLost == C5_FlushedCounts(Flushed(sc))

\* Three steps appended, one run of two and one still to promote.
C5_Witness ==
  /\ appended = 3 /\ rollbacks = 0
  /\ CountSum(Cmds) = 2
  /\ IsSome(sc.next_step_clock)
  /\ Flushed(sc).err = "Ok"

\* The premise of the SDS filter: a step is pending, the new step is of the
\* other direction and less than SDS_FILTER_TIME * mcu_freq ticks after it.
C6_Premise(sdir, h) ==
  /\ sc.next_step_clock # None
  /\ sdir # sc.next_step_dir
  /\ (StepClock(sc, h) - sc.next_step_clock[1]) * 1000000 < 750 * McuFreq

\* s1 is the compressor after the append, s2 after the commit and flush.
C6_NothingEmitted(s1, s2) ==
  /\ s1.err = "Ok"
  /\ s1.next_step_clock = None
  /\ s1.sink = sc.sink /\ s1.queue = sc.queue /\ s1.promoted = sc.promoted
  /\ s2.promoted = sc.promoted
  /\ s2.err = "Ok" => CountSum(s2.sink) = sc.promoted

C6_AfterAppend(s1) == C6_NothingEmitted(s1, flush(commit(s1), U64_MAX))

\* C6: an append of the opposite direction within the SDS window of the
\* pending step leaves no pending step and pushes nothing, and a commit and
\* flush(u64::MAX) after it emit no step of the pair.
C6_SdsPairDropped ==
  \A sdir \in { 0, 1 } : \A h \in AppendTimes(sc, NearDeltas \cup FarDeltas) :
    C6_Premise(sdir, h) => C6_AfterAppend(append(sc, sdir, h))

\* The SDS filter has just dropped a pair behind an emitted run.
C6_Witness ==
  /\ rollbacks = 1 /\ appended = 3
  /\ sc.next_step_clock = None
  /\ CountSum(Flushed(sc).sink) = 1

\* C7: find_past_position(last_step_clock()) equals last_position() in
\* every reachable state.
C7_LookupAtLastStepClock ==
  find_past_position(sc, last_step_clock(sc)) = last_position(sc)

\* The steps were appended in the order of their clocks, each after
\* last_step_clock, reset was not called with a clock before last_step_clock
\* and set_last_position not with a clock after it.
InOrder == increasing /\ ~back

\* C7 as amended: find_past_position(last_step_clock()) equals
\* last_position() in every state reached by calls in order (InOrder).
C7_LookupAtLastStepClockInOrder == InOrder => C7_LookupAtLastStepClock

\* Runs were emitted, the position was set and the lookup goes through the
\* entry set_last_position pushed.
C7_Witness ==
  /\ InOrder
  /\ "set_last_position" \in used
  /\ Len(sc.history) >= 2
  /\ sc.history[1].step_count = 0
  /\ sc.last_position = 10

\* The clocks flush is called with: around last_step_clock, at the queued
\* and the pending step's clocks, and u64::MAX.
FlushTimes(s) ==
  { s.last_step_clock + d : d \in 0..3 }
    \cup { s.queue[i] : i \in 1..Len(s.queue) }
    \cup { s.next_step_clock[i] : i \in 1..Len(s.next_step_clock) }
    \cup { U64_MAX }

\* s1 is the compressor after flush(t).
SecondFlushChangesNothing(s1, t) == flush(s1, t) = s1

\* C8: flush(t); flush(t) pushes the commands and leaves the state that
\* flush(t) alone does.
C8_FlushIdempotent ==
  \A t \in FlushTimes(sc) : SecondFlushChangesNothing(flush(sc, t), t)

\* A flush that emits a run and leaves steps queued.
C8_Witness ==
  \E t \in FlushTimes(sc) :
    /\ flush(sc, t).err = "Ok"
    /\ Len(flush(sc, t).sink) > Len(sc.sink)
    /\ flush(sc, t).queue # << >>

RECURSIVE StepCountSum(_)
StepCountSum(history) ==
  IF history = << >> THEN 0 ELSE Head(history).step_count + StepCountSum(Tail(history))

\* C9: while expire_history and set_last_position have not been called, the
\* step_count of the history entries sum to last_position minus the initial
\* last_position (0).
C9_HistorySumsToPosition ==
  (used \cap { "expire_history", "set_last_position" } = { }) =>
    StepCountSum(sc.history) = sc.last_position - NewCompressor.last_position

\* Runs of both directions in the history, after a reset.
C9_Witness ==
  /\ used = { "reset" }
  /\ \E i, j \in 1..Len(sc.history) :
       sc.history[i].step_count > 0 /\ sc.history[j].step_count < 0

\* The number of steps of the recorded run e whose reconstructed clock,
\* (first_clock - interval) + interval*k + add*k*(k-1)/2, is at most c.
StepsUpTo(e, c) ==
  Cardinality({ k \in 1..Abs(e.step_count) :
                  (e.first_clock - e.interval) + Reconstruct(e, k) <= c })

PositionInside(e, c) ==
  IF e.step_count < 0 THEN e.start_position - StepsUpTo(e, c)
  ELSE e.start_position + StepsUpTo(e, c)

\* The clocks a lookup is asked for.
LookupClocks(s) == 0..(s.last_step_clock + 1)

\* find_past_position(c) for the clocks inside the i-th entry of the history
\* (the newest is the first).
LookupInside(s, i) ==
  \A c \in LookupClocks(s) :
    (s.history[i].first_clock <= c /\ c < s.history[i].last_clock) =>
      find_past_position(s, c) = PositionInside(s.history[i], c)

\* ... for the clocks from the entry's last_clock up to the next entry.
LookupAfter(s, i) ==
  \A c \in LookupClocks(s) :
    (s.history[i].last_clock <= c /\ (i > 1 => c < s.history[i - 1].first_clock)) =>
      find_past_position(s, c) = s.history[i].start_position + s.history[i].step_count

\* ... for the clocks before the oldest entry.
LookupBefore(s) ==
  \A c \in LookupClocks(s) :
    (s.history # << >> /\ c < s.history[Len(s.history)].first_clock) =>
      find_past_position(s, c) = s.history[Len(s.history)].start_position

LookupCorrect(s) ==
  /\ \A i \in 1..Len(s.history) : LookupInside(s, i) /\ LookupAfter(s, i)
  /\ LookupBefore(s)

\* C10: find_past_position(c) is the start_position of the run holding c
\* plus (minus, for a run of negative direction) the number of its steps
\* with a reconstructed clock <= c; from a run's last_clock up to the next
\* run it is the position after the run; before the oldest entry it is that
\* entry's start_position.
C10_LookupCorrect == LookupCorrect(sc)

\* C10 for calls in order: the rounding of the quadratic solve alone breaks
\* the lookup inside a run.
C10_LookupCorrectInOrder == InOrder => LookupCorrect(sc)

\* The steps commit and flush(u64::MAX) have to emit from s: the queued
\* steps and the pending one.
CommittedSteps(s) ==
  SubSeq(commit(s).queue, commit(s).queue_pos + 1, Len(commit(s).queue))

FullFlush(s) == flush(commit(s), U64_MAX)

\* The commands that flush pushes.
NewCmds(s) == (Len(s.sink) + 1)..Len(FullFlush(s).sink)

\* The offset from clock base of the k-th of the steps after place j, and the
\* earliest offset it may be replayed at (minp), as minmax_point has them.
AltPoint(steps, base, j, k) == steps[j + k] - base

AltPrev(steps, base, j, k) == IF k = 1 THEN 0 ELSE steps[j + k - 1] - base

AltMinp(steps, base, j, k) ==
  AltPoint(steps, base, j, k)
    - Min(MaxError, TruncDiv(AltPoint(steps, base, j, k) - AltPrev(steps, base, j, k), 2))

\* A run that replays the count steps after place j within their bounds,
\* with its fields in range.
AltRunFits(steps, base, j, run) ==
  \A k \in 1..run.count :
    /\ Reconstruct(run, k) <= AltPoint(steps, base, j, k)
    /\ Reconstruct(run, k) >= AltMinp(steps, base, j, k)

AltRuns(steps, base, j) ==
  { run \in [ interval : 1..(INTERVAL_LIMIT - 1),
              count : 1..(Len(steps) - j),
              add : (-MaxAltAdd)..MaxAltAdd ] : AltRunFits(steps, base, j, run) }

\* Some stream of at most budget runs replays the steps after place j, the
\* last_step_clock being base.
RECURSIVE CanCover(_, _, _, _)
CanCover(steps, base, j, budget) ==
  IF j = Len(steps) THEN TRUE
  ELSE IF budget = 0 THEN FALSE
  ELSE \E run \in AltRuns(steps, base, j) :
         CanCover(steps, base + Reconstruct(run, run.count), j + run.count, budget - 1)

\* commit and flush(u64::MAX) succeed on steps of one direction appended in
\* clock order, and compress them all.
C11_Case(s) ==
  /\ increasing
  /\ FullFlush(s).err = "Ok"
  /\ NewCmds(s) # { }
  /\ \A i \in NewCmds(s) :
       FullFlush(s).sink[i].type = "QueueStep" /\ ~FullFlush(s).trace[i].far

\* C11: for steps committed in strictly increasing clock order a full flush
\* emits the shortest stream: no stream of fewer runs, each within the
\* per-point bounds and the field ranges, replays the same steps.
C11_ShortestStream ==
  C11_Case(sc) =>
    ~CanCover(CommittedSteps(sc), sc.last_step_clock, 0, Cardinality(NewCmds(sc)) - 1)

\* ------------------------------------------------- claims of the trap queue
\* The places of the active moves of a queue that have an active move after
\* them.
ActivePairs(q) == 2..(Len(q.moves) - 2)

GapFree(q) ==
  \A i \in ActivePairs(q) : MoveEnd(q.moves[i]) = q.moves[i + 1].print_time

\* C12: after add_move calls only, each with a print_time not before the end
\* of the move added before it, every active move ends when the next one
\* starts.
C12_GapFree == tqplain => GapFree(tq)

\* The last active move of a queue that has one.
LastActive(q) == q.moves[tail_index(q) - 1]

\* The tail sentinel carries NEVER_TIME and the queue has no active move, or
\* the tail sentinel's start_pos is where the last active move ends.
TailSettled(q) ==
  \/ tail_sentinel(q).print_time = NEVER_TIME /\ active_len(q) = 0
  \/ /\ active_len(q) > 0
     /\ tail_sentinel(q).start_pos = move_get_coord(LastActive(q), LastActive(q).move_t)

TimeOrdered(q) ==
  /\ \A i \in 2..(Len(q.moves) - 1) : q.moves[i].move_t >= 0
  /\ \A i \in ActivePairs(q) : MoveEnd(q.moves[i]) <= q.moves[i + 1].print_time

\* The number of moves a finalize_moves from q to q2 removed.
Removed(q, q2) == active_len(q) - active_len(q2)

\* What C14 says of the queue q2 that finalize_moves(print_time, _) leaves
\* of q.
FinalizePost(q, q2, print_time) ==
  /\ \A i \in 1..active_len(q2) : ~(MoveEnd(get_active_moves(q2)[i]) <= print_time)
  /\ Removed(q, q2) >= 0
  /\ get_active_moves(q2) = SubSeq(get_active_moves(q), Removed(q, q2) + 1, active_len(q))
  /\ \A i \in 1..Removed(q, q2) : MoveEnd(get_active_moves(q)[i]) <= print_time
  /\ active_len(q2) = 0 => tail_sentinel(q2).print_time = NEVER_TIME

FinalizeArgs == (FinalizeTimes \cup { 0, 3, NEVER_TIME }) \X ClearTimes

\* C14: finalize_moves(t, c) on a time-ordered queue leaves no active move
\* that ends at or before t, removes only moves that end at or before t, and
\* leaves the tail sentinel with NEVER_TIME when no active move remains.
C14_FinalizeEvictsExpired ==
  TimeOrdered(tq) =>
    \A a \in FinalizeArgs : FinalizePost(tq, trapq_finalize_moves(tq, a[1], a[2]), a[1])

\* finalize_moves has moved a part of a time-ordered queue to the history.
C14_Witness ==
  /\ tqlast = "finalize_moves"
  /\ TimeOrdered(tq)
  /\ active_len(tq) > 0
  /\ history_len(tq) > 0

\* The history of q after the eviction of finalize_moves(print_time, _),
\* before it is trimmed.
EvictedHistory(q, print_time) == ResetTail(EvictLoop(q, print_time)).history

\* What C15 says of the history `trimmed` that finalize_moves leaves of the
\* history `evicted`.
TrimPost(evicted, trimmed, clear_history_time) ==
  evicted # << >> =>
    /\ trimmed # << >>
    /\ trimmed[1] = evicted[1]
    /\ \A i \in 2..Len(trimmed) : MoveEnd(trimmed[i]) > clear_history_time

\* C15: finalize_moves(t, c) keeps the most recent entry of a history that
\* is not empty after the eviction, for every c, and every other entry it
\* keeps ends after c.
C15_LatestRetained ==
  \A a \in FinalizeArgs :
    TrimPost(EvictedHistory(tq, a[1]), trapq_finalize_moves(tq, a[1], a[2]).history, a[2])

\* C16: the history is monotone in print_time: from its front (newest) to
\* its back (oldest) print_time never increases.
C16_HistoryMonotone ==
  \A i \in 1..(history_len(tq) - 1) :
    tq.history[i].print_time >= tq.history[i + 1].print_time

\* C17: no entry of the history is null-valued (start_v = 0 and
\* half_accel = 0), so extract_old returns none from the history.
C17_NoNullInHistory ==
  \A i \in 1..history_len(tq) : ~IsNullValued(tq.history[i])

\* The arguments extract_old is called with.
ExtractMax == 0..2

ExtractTimes == { 0, 1, 2, 4 }

\* C18: extract_old(max, t0, t1) returns at most max entries.
C18_AtMostMax ==
  \A max \in ExtractMax : \A t0 \in ExtractTimes : \A t1 \in ExtractTimes :
    Len(trapq_extract_old(tq, max, t0, t1)) <= max

\* The moves of the active and history regions, and those among them whose
\* [print_time, print_time + move_t] meets [t0, t1].
Regions(q) ==
  { get_active_moves(q)[i] : i \in 1..active_len(q) }
    \cup { q.history[i] : i \in 1..history_len(q) }

Intersects(m, t0, t1) == m.print_time <= t1 /\ MoveEnd(m) >= t0

InWindow(q, t0, t1) == { m \in Regions(q) : Intersects(m, t0, t1) }

\* What C19 says of the result of extract_old(max, t0, t1) on q.
ExtractPost(q, max, t0, t1, result) ==
  /\ \A i \in 1..(Len(result) - 1) : result[i].print_time >= result[i + 1].print_time
  /\ \A i \in 1..Len(result) : \E m \in InWindow(q, t0, t1) : result[i] = PullMove(m)
  /\ Len(result) < max =>
       \A m \in InWindow(q, t0, t1) : \E i \in 1..Len(result) : result[i] = PullMove(m)

\* C19: extract_old(max, t0, t1) returns newest first the moves of both
\* regions that meet [t0, t1]: none outside the window, and none missing
\* when fewer than max are returned.
C19_ExtractWindow ==
  \A max \in ExtractMax : \A t0 \in ExtractTimes : \A t1 \in ExtractTimes :
    ExtractPost(tq, max, t0, t1, trapq_extract_old(tq, max, t0, t1))

\* A move add_move is to reject: it starts before the last queued move ends,
\* or its move_t is negative.
Malformed(q, m) ==
  \/ m.move_t < 0
  \/ active_len(q) > 0 /\ m.print_time < MoveEnd(LastActive(q))

\* C20: add_move rejects a malformed move and leaves the queue as it was.
C20_MalformedRejected ==
  \A m \in AddMoves : Malformed(tq, m) => trapq_add_move(tq, m) = tq

\* What C21 says of the queue q2 that set_position(print_time, pos) leaves.
SetPositionPost(q2, print_time, pos) ==
  /\ active_len(q2) = 0
  /\ tail_sentinel(q2).print_time = NEVER_TIME
  /\ history_len(q2) > 0
  /\ q2.history[1] = PositionMarker(print_time, pos)
  /\ \A i \in 2..history_len(q2) :
       /\ q2.history[i].print_time < print_time
       /\ MoveEnd(q2.history[i]) <= print_time

\* C21: set_position(t, x, y, z) leaves no active move and the tail sentinel
\* at NEVER_TIME; the newest history entry is the zero-duration marker at t
\* with start_pos (x, y, z); every other entry starts before t and ends at
\* or before t.
C21_SetPositionPost ==
  \A print_time \in SetPositionTimes :
    SetPositionPost(trapq_set_position(tq, print_time, Coord(7, 0, 0)),
                    print_time, Coord(7, 0, 0))

\* C22: every active move, the null moves included, has print_time >= 0
\* (every move given to add_move and append has).
C22_ActiveTimesNotNegative ==
  \A i \in 1..active_len(tq) : get_active_moves(tq)[i].print_time >= 0

\* The move before the tail sentinel: the last active move, or the head
\* sentinel of a queue without active moves.
BeforeTail(q) == q.moves[tail_index(q) - 1]

\* Where C30 has the null-fill of m start: at m.print_time - 1 when the
\* predecessor is the head sentinel and the gap exceeds 1 s, else at the
\* predecessor's end.
NullFillStart(q, m) ==
  IF active_len(q) = 0 /\ m.print_time - MoveEnd(BeforeTail(q)) > MAX_NULL_MOVE
  THEN m.print_time - MAX_NULL_MOVE
  ELSE MoveEnd(BeforeTail(q))

\* The move add_move has put before m in the queue q2 it leaves.
FillOf(q2) == q2.moves[tail_index(q2) - 2]

\* What C30 says of the queue q2 that add_move(m) leaves of q.
NullFillPost(q, m, q2) ==
  IF MoveEnd(BeforeTail(q)) < m.print_time
  THEN /\ active_len(q2) = active_len(q) + 2
       /\ IsNullValued(FillOf(q2))
       /\ FillOf(q2).start_pos = m.start_pos
       /\ MoveEnd(FillOf(q2)) = m.print_time
       /\ FillOf(q2).print_time = NullFillStart(q, m)
  ELSE active_len(q2) = active_len(q) + 1

\* C30: add_move(m) inserts a null-fill exactly when the previous segment
\* ends before m.print_time; it has no velocity, starts at m.start_pos and
\* ends at m.print_time; it starts at the previous segment's end, or at
\* m.print_time - 1 when only the head sentinel precedes and the gap exceeds
\* 1 s, never when a real segment precedes.
C30_NullFill ==
  \A m \in AddMoves : NullFillPost(tq, m, trapq_add_move(tq, m))

\* ------------------------------------------------- the SDS filter's effect
\* s1 is the compressor after an append the SDS filter answered.
SdsNewStepPending(s1, step_clock) == s1.next_step_clock = Some(step_clock)

SdsBothDiscarded(s0, s1, sdir) ==
  /\ s1.err = "Ok"
  /\ s1.next_step_clock = None
  /\ s1.next_step_dir = sdir
  /\ s1.queue = s0.queue /\ s1.queue_pos = s0.queue_pos
  /\ s1.sink = s0.sink /\ s1.history = s0.history
  /\ s1.last_step_clock = s0.last_step_clock
  /\ s1.sdir = s0.sdir

\* C25 as the specification words it: when the SDS filter fires, the buffered
\* step is discarded and the new step becomes the pending step.
C25_NewStepPending ==
  \A sdir \in { 0, 1 } : \A h \in AppendTimes(sc, NearDeltas \cup FarDeltas) :
    SdsFires(Enter(sc), sdir, h) =>
      SdsNewStepPending(append(sc, sdir, h), StepClock(sc, h))

\* C25: when the SDS filter fires, the buffered step is discarded and the new
\* step is not stored either: the append returns Ok with no step pending,
\* next_step_dir set to the new direction, and the queue, the sink, the
\* history, last_step_clock and sdir as they were.
C25_BothStepsDiscarded ==
  \A sdir \in { 0, 1 } : \A h \in AppendTimes(sc, NearDeltas \cup FarDeltas) :
    SdsFires(Enter(sc), sdir, h) =>
      SdsBothDiscarded(sc, append(sc, sdir, h), sdir)

\* A pending step that an append of the other direction would cancel.
C25_Witness ==
  /\ IsSome(sc.next_step_clock)
  /\ \E sdir \in { 0, 1 } : \E h \in AppendTimes(sc, NearDeltas) :
       /\ SdsFires(Enter(sc), sdir, h)
       /\ append(sc, sdir, h).next_step_clock = None
       /\ append(sc, sdir, h).queue # << >>

\* ------------------------------------------------ flush and the pending step
\* s1 is the compressor after flush(t) of s0.
FlushLeavesNoPending(s1) == s1.err = "Ok" => s1.next_step_clock = None

FlushPendingPost(s0, s1, t) ==
  s1.err = "Ok" =>
    IF IsSome(s0.next_step_clock) /\ t < Unwrap(s0.next_step_clock)
    THEN /\ s1.next_step_clock = s0.next_step_clock
         /\ s1.next_step_dir = s0.next_step_dir
         /\ s1.promoted = s0.promoted
    ELSE /\ s1.next_step_clock = None
         /\ s1.promoted = s0.promoted + Len(s0.next_step_clock)

\* C26 as the specification words it: flush(move_clock) commits the pending
\* step for every move_clock, so that no step is pending after a successful
\* flush.
C26_FlushLeavesNoPending ==
  \A t \in FlushTimes(sc) : FlushLeavesNoPending(flush(sc, t))

\* C26: flush(move_clock) commits the pending step first exactly when
\* move_clock is at or after the pending step's clock, and then no step is
\* pending after a successful flush; when move_clock is before it, the same
\* step is still pending, uncommitted, after the flush.
C26_FlushCommitsDuePending ==
  \A t \in FlushTimes(sc) : FlushPendingPost(Enter(sc), flush(sc, t), t)

\* A flush that emits a run and leaves the pending step where it was.
C26_Witness ==
  /\ IsSome(sc.next_step_clock)
  /\ \E t \in FlushTimes(sc) :
       /\ t < Unwrap(sc.next_step_clock)
       /\ flush(sc, t).err = "Ok"
       /\ Len(flush(sc, t).sink) > Len(sc.sink)
       /\ flush(sc, t).next_step_clock = sc.next_step_clock

\* ------------------------------------------------------ what a flush drains
\* The committed steps no command covers yet.
Undrained(s) == { i \in 1..Len(s.queue) : i > s.queue_pos }

\* s1 is the compressor after flush(t).
DrainedUpTo(s1, t) ==
  s1.err = "Ok" => Undrained(s1) = {} \/ s1.last_step_clock >= t

NoneLeftBefore(s1, t) ==
  s1.err = "Ok" => \A i \in Undrained(s1) : s1.queue[i] >= t

FarPending(s) ==
  /\ IsSome(s.next_step_clock)
  /\ s.next_step_dir = s.sdir
  /\ Unwrap(s.next_step_clock) >= s.last_step_clock + CLOCK_DIFF_MAX

\* The compressor after the far path's flush up to step_clock -
\* CLOCK_DIFF_MAX + 1.
FarFlushed(s) ==
  queue_flush([ Enter(s) EXCEPT !.next_step_clock = None ],
              Unwrap(s.next_step_clock) - CLOCK_DIFF_MAX + 1)

\* cmd is the standalone QueueStep of a step at step_clock that follows
\* last_step_clock = last.
IsStandalone(cmd, step_clock, last) ==
  /\ cmd.type = "QueueStep"
  /\ cmd.count = 1 /\ cmd.add = 0
  /\ cmd.interval = step_clock - last
  /\ cmd.first_clock = step_clock /\ cmd.last_clock = step_clock

\* s1 is the compressor after the flush, s2 after the commit.
FarStandalonePost(s1, s2, step_clock) ==
  s2.err = "Ok" =>
    /\ Len(s2.sink) = Len(s1.sink) + 1
    /\ SubSeq(s2.sink, 1, Len(s1.sink)) = s1.sink
    /\ IsStandalone(s2.sink[Len(s2.sink)], step_clock, s1.last_step_clock)
    /\ Undrained(s2) = {}

\* C28: a step committed CLOCK_DIFF_MAX ticks or more beyond last_step_clock
\* is emitted, after a flush of the queue up to step_clock - CLOCK_DIFF_MAX +
\* 1, as a standalone QueueStep with count 1, add 0, interval = step_clock -
\* last_step_clock and first_clock = last_clock = step_clock, and is not
\* queued for a run with other steps.
C28_FarStepStandalone ==
  FarPending(sc) =>
    FarStandalonePost(FarFlushed(sc), commit(sc), Unwrap(sc.next_step_clock))

\* ------------------------------------------------- the history of the runs
\* The places of the sink of s2 that a call starting from s0 pushed.
PushedAt(s0, s2) == (Len(s0.sink) + 1)..Len(s2.sink)

PushedRuns(s0, s2) == { i \in PushedAt(s0, s2) : s2.sink[i].type = "QueueStep" }

\* The place in the history of s2 (newest first) of the entry of the run at
\* place i of the sink: as many newer entries as runs pushed after it.
EntryOf(s0, s2, i) == 1 + Cardinality({ j \in PushedRuns(s0, s2) : j > i })

\* The compressor's direction when the run at place i was pushed: a call
\* changes sdir at most once, with the SetNextStepDir it pushes.
SdirAt(s0, s2, i) ==
  IF \E j \in PushedAt(s0, s2) : j < i /\ s2.sink[j].type = "SetNextStepDir"
  THEN s2.sdir ELSE s0.sdir

\* last_position when the run at place i was pushed.
PositionAfter(s2, n) == IF n = 1 THEN s2.last_position ELSE s2.history[n - 1].start_position

RunRecorded(q, e, sdir) ==
  /\ e.first_clock = q.first_clock /\ e.last_clock = q.last_clock
  /\ e.interval = q.interval /\ e.add = q.add
  /\ sdir \in { 0, 1 }
  /\ e.step_count = IF sdir = 1 THEN q.count ELSE -q.count
  /\ q.last_clock = q.first_clock + q.interval * (q.count - 1)
                       + (q.add * (q.count - 1) * q.count) \div 2

\* s2 is the compressor a call (append, commit, flush) leaves that started
\* from s0.
RunsRecorded(s0, s2) ==
  /\ Len(s2.history) = Len(s0.history) + Cardinality(PushedRuns(s0, s2))
  /\ SubSeq(s2.history, Cardinality(PushedRuns(s0, s2)) + 1, Len(s2.history)) = s0.history
  /\ \A i \in PushedRuns(s0, s2) :
       /\ RunRecorded(s2.sink[i], s2.history[EntryOf(s0, s2, i)], SdirAt(s0, s2, i))
       /\ s2.history[EntryOf(s0, s2, i)].start_position
            + s2.history[EntryOf(s0, s2, i)].step_count
            = PositionAfter(s2, EntryOf(s0, s2, i))
  /\ PushedRuns(s0, s2) # {} =>
       /\ s2.history[Cardinality(PushedRuns(s0, s2))].start_position = s0.last_position
       /\ s2.last_step_clock = s2.history[1].last_clock

HistoryChained(s) ==
  \A n \in 1..Len(s.history) :
    s.history[n].start_position + s.history[n].step_count = PositionAfter(s, n)

\* C29: every QueueStep a call pushes has one history entry with its
\* first_clock, last_clock, interval and add, start_position = last_position
\* before the run and step_count = +count for sdir 1, -count for sdir 0;
\* last_clock = first_clock + interval*(count-1) + add*(count-1)*count/2 and
\* last_step_clock becomes it; and while set_last_position has not been
\* called each entry's start_position + step_count is the start_position of
\* the next newer entry, or last_position for the newest.
C29_HistoryRecordsRuns ==
  /\ "set_last_position" \notin used => HistoryChained(sc)
  /\ RunsRecorded(sc, commit(sc))
  /\ \A t \in FlushTimes(sc) : RunsRecorded(sc, flush(sc, t))
  /\ \A sdir \in { 0, 1 } : \A h \in AppendTimes(sc, ShortDeltas \cup { 2 * CLOCK_DIFF_MAX }) :
       RunsRecorded(sc, append(sc, sdir, h))

\* A flush that pushes two runs, one of them backwards, after
\* set_invert_sdir was called.
C29_Witness ==
  /\ used = { "set_invert_sdir" }
  /\ \E t \in FlushTimes(sc) :
       /\ Cardinality(PushedRuns(sc, flush(sc, t))) >= 2
       /\ \E n \in 1..Len(flush(sc, t).history) : flush(sc, t).history[n].step_count < 0

\* ------------------------------------------------- the solver and flush_time
\* The range solves of the latest generate_steps call.
Ranges == { sk.ranges[i] : i \in 1..Len(sk.ranges) }

StepsOf(r) == { r.steps[j] : j \in 1..Len(r.steps) }

\* C23: generate_steps(sc, trapq, flush_time) starts no range solve with an
\* end bound after flush_time and appends no step with an absolute time
\* (m.print_time + step_time) after flush_time.
C23_NothingBeyondFlushTime ==
  \A r \in Ranges :
    /\ r.abs_end <= sk.last_flush_time
    /\ \A t \in StepsOf(r) : t <= sk.last_flush_time

\* A call that stopped inside an active move, with a step at flush_time
\* itself.
C23_Witness ==
  \E r \in Ranges :
    /\ check_active(sk, r.move)
    /\ MoveEnd(r.move) > sk.last_flush_time
    /\ sk.last_flush_time \in StepsOf(r)
    /\ Cardinality(StepsOf(r)) >= 2

\* ------------------------------------------------------------ the axis filter
AxisValues == { -1, 0, 1 }

FlagSets == SUBSET { "x", "y", "z" }

\* check_active is true of exactly the moves with a non-zero axes_r component
\* on an axis of active_flags.
ActiveIffMovingAxis(active_flags, axes_r) ==
  check_active([ sk EXCEPT !.active_flags = active_flags ],
               [ DefaultMove EXCEPT !.axes_r = axes_r ])
    <=> \E axis \in active_flags : axes_r[axis] # 0

\* The range solves of the latest call on moves that are not active appended
\* no step and had the compressor push no command.
NothingForInactiveMoves ==
  \A r \in Ranges :
    ~check_active(sk, r.move) => r.steps = << >> /\ r.pushed = 0

\* C24: a move is active for a stepper iff an axis of its active_flags has a
\* non-zero axes_r component, and with gen_steps_pre_active =
\* gen_steps_post_active = 0 generate_steps appends no step and pushes no
\* command for a move that is not active.
C24_AxisFilter ==
  /\ \A active_flags \in FlagSets : \A x, y, z \in AxisValues :
       ActiveIffMovingAxis(active_flags, Coord(x, y, z))
  /\ (sk.gen_steps_pre_active = 0 /\ sk.gen_steps_post_active = 0)
       => NothingForInactiveMoves

\* --------------------------------------------------- the segments of append
\* The arguments of append the claim is checked for: every pattern of zero
\* and positive durations.
AppendCases ==
  { [ print_time |-> print_time, accel_t |-> accel_t, cruise_t |-> cruise_t,
      decel_t |-> decel_t, start_pos |-> Coord(0, 0, 0), axes_r |-> Coord(1, 0, 0),
      start_v |-> 0, cruise_v |-> 2, accel |-> 2 ] :
      print_time \in { 0, 3 }, accel_t \in { 0, 1 }, cruise_t \in { 0, 2 },
      decel_t \in { 0, 1 } }

\* (move_t, start_v, half_accel) of the segments append is to add, in order.
SegmentsOf(a) ==
  (IF a.accel_t > 0 THEN << << a.accel_t, a.start_v, a.accel \div 2 >> >> ELSE << >>)
    \o (IF a.cruise_t > 0 THEN << << a.cruise_t, a.cruise_v, 0 >> >> ELSE << >>)
    \o (IF a.decel_t > 0 THEN << << a.decel_t, a.cruise_v, -(a.accel \div 2) >> >> ELSE << >>)

\* Where segment i starts: at the arguments' time and position, or where the
\* move before it ends.
SegmentStart(seg, i, a) ==
  IF i = 1 THEN << a.print_time, a.start_pos >>
  ELSE << MoveEnd(seg[i - 1]), move_get_coord(seg[i - 1], seg[i - 1].move_t) >>

\* seg, the last moves of the queue, are the segments of a.
AreSegments(seg, a) ==
  \A i \in 1..Len(seg) :
    /\ << seg[i].move_t, seg[i].start_v, seg[i].half_accel >> = SegmentsOf(a)[i]
    /\ << seg[i].print_time, seg[i].start_pos >> = SegmentStart(seg, i, a)
    /\ seg[i].axes_r = a.axes_r

\* q2 is the queue after append(a) on q: the active moves of q, at most one
\* null-fill, and the segments.
AppendPost(q, q2, a) ==
  /\ q2.history = q.history
  /\ SegmentsOf(a) = << >> => q2 = q
  /\ active_len(q2) \in { active_len(q) + Len(SegmentsOf(a)),
                           active_len(q) + Len(SegmentsOf(a)) + 1 }
  /\ SubSeq(get_active_moves(q2), 1, active_len(q)) = get_active_moves(q)
  /\ AreSegments(SubSeq(get_active_moves(q2),
                        active_len(q2) - Len(SegmentsOf(a)) + 1, active_len(q2)), a)
  /\ active_len(q2) = active_len(q) + Len(SegmentsOf(a)) + 1 =>
       /\ IsNullValued(get_active_moves(q2)[active_len(q) + 1])
       /\ MoveEnd(get_active_moves(q2)[active_len(q) + 1]) = a.print_time

\* C31: append adds one move per strictly positive duration, in the order
\* accel, cruise, decel, with (start_v, half_accel) = (start_v, accel/2),
\* (cruise_v, 0), (cruise_v, -accel/2), each starting at the time and the end
\* coordinate where the one before it ends, with no null-fill between them
\* (add_move may put one before the first); with all durations zero the
\* queue is unchanged.
C31_AppendSegments ==
  \A a \in AppendCases : AppendPost(tq, trapq_append(tq, a), a)

\* An append of three segments behind a gap, on a queue that holds moves.
C31_Witness ==
  /\ active_len(tq) > 0
  /\ \E a \in AppendCases :
       /\ Len(SegmentsOf(a)) = 3
       /\ active_len(trapq_append(tq, a)) = active_len(tq) + 4

\* ------------------------------------------------ check_sentinels on its own
\* The tail sentinel is marked stale.
TailStale(q) == tail_sentinel(q).print_time = 0

\* The tail sentinel check_sentinels is to leave on a stale queue.
RecomputedTail(q) ==
  IF active_len(q) = 0
  THEN [ tail_sentinel(q) EXCEPT !.print_time = NEVER_TIME, !.move_t = NEVER_TIME ]
  ELSE [ tail_sentinel(q) EXCEPT !.print_time = MoveEnd(LastActive(q)),
                                 !.move_t = 0,
                                 !.start_pos = move_get_coord(LastActive(q), LastActive(q).move_t) ]

CheckSentinelsPost(q, q2) ==
  /\ ~TailStale(q) => q2 = q
  /\ TailStale(q) =>
       /\ q2.history = q.history
       /\ Len(q2.moves) = Len(q.moves)
       /\ \A i \in 1..(Len(q.moves) - 1) : q2.moves[i] = q.moves[i]
       /\ tail_sentinel(q2) = RecomputedTail(q)

\* C32: check_sentinels recomputes a stale tail sentinel (print_time =
\* move_t = NEVER_TIME without an active move; else the end time of the last
\* active move, move_t 0 and the coordinate at its end), changes nothing on
\* a tail that is not stale, and called twice gives what one call gives.
\* No operation leaves a stale tail on a queue without active moves
\* (finalize_moves settles it), so that branch is also applied to the queue
\* with its tail marked stale by hand.
C32_CheckSentinels ==
  /\ CheckSentinelsPost(tq, trapq_check_sentinels(tq))
  /\ trapq_check_sentinels(trapq_check_sentinels(tq)) = trapq_check_sentinels(tq)
  /\ CheckSentinelsPost(MarkTailStale(tq), trapq_check_sentinels(MarkTailStale(tq)))
  /\ trapq_check_sentinels(trapq_check_sentinels(MarkTailStale(tq)))
       = trapq_check_sentinels(MarkTailStale(tq))

\* A stale tail behind active moves and a history, which check_sentinels
\* moves.
C32_Witness ==
  /\ TailStale(tq)
  /\ active_len(tq) > 0
  /\ history_len(tq) > 0
  /\ trapq_check_sentinels(tq) # tq
  /\ ~TailStale(trapq_check_sentinels(tq))

\* ------------------------------------------------------ the post-step callback
\* The statement as the specification has it: one post_step per step.
C35_PostStepAfterEachStep ==
  \A r \in Ranges : r.post_steps = Len(r.steps)

\* C35: gen_steps_range calls post_step() once, at its end, after it has set
\* commanded_pos, however many steps it appended; a range solve that a
\* compressor error ends does not call it.
C35_PostStepOncePerRange ==
  \A r \in Ranges : r.post_steps = (IF r.ok THEN 1 ELSE 0)

\* A range solve that appended several steps and called post_step once, and
\* one that appended none and called it too.
C35_Witness ==
  /\ \E r \in Ranges : r.ok /\ Len(r.steps) >= 2 /\ r.post_steps = 1
  /\ \E r \in Ranges : r.ok /\ Len(r.steps) = 0 /\ r.post_steps = 1

\* ------------------------------------------------------ the post-active window
\* The index of the last active move before move j of the queue, 0 without
\* one.
LastActiveBefore(k, moves, j) ==
  Max0({ i \in 1..(j - 1) : check_active(k, moves[i]) })

\* The loop of generate_steps(flush_time) gets to move j: j is not fully
\* processed, and no move from the first such move to j makes the call return.
Visited(k, moves, j, flush_time) ==
  /\ j > FirstUnprocessed(moves, 0, k.last_flush_time)
  /\ \A i \in (FirstUnprocessed(moves, 0, k.last_flush_time) + 1)..(j - 1) :
       IF check_active(k, moves[i]) THEN MoveEnd(moves[i]) < flush_time
       ELSE flush_time + k.gen_steps_pre_active > MoveEnd(moves[i])

\* The range solves of move m in the post-active window among those of k2.
PostRanges(k2, m) ==
  { i \in 1..Len(k2.ranges) : k2.ranges[i].window = "post" /\ k2.ranges[i].move = m }

\* Move m, not active, is solved in the post-active window that ends at
\* boundary iff it starts before boundary, and then up to min(boundary,
\* flush_time).
PostActivePost(k2, m, boundary, flush_time) ==
  /\ PostRanges(k2, m) # { } <=> m.print_time < boundary
  /\ \A i \in PostRanges(k2, m) : k2.ranges[i].abs_end = Min(boundary, flush_time)

\* The statement as the specification has it, last_active_end being the end
\* of the last active move before the move in the queue.
PostActiveOf(k, s, q, flush_time) ==
  \A j \in 1..active_len(q) :
    ( /\ ~check_active(k, get_active_moves(q)[j])
      /\ LastActiveBefore(k, get_active_moves(q), j) > 0
      /\ Visited(k, get_active_moves(q), j, flush_time) )
    => PostActivePost(generate_steps(k, s, q, flush_time).sk, get_active_moves(q)[j],
                      MoveEnd(get_active_moves(q)[LastActiveBefore(k, get_active_moves(q), j)])
                        + k.gen_steps_post_active,
                      flush_time)

C33_PostActiveAfterLastActive ==
  \A flush_time \in SolverFlushTimes(sk) :
    (sk.timely /\ generate_steps(sk, sc, tq, flush_time).sc.err = "Ok")
      => PostActiveOf(sk, sc, tq, flush_time)

\* force_steps_time when the loop gets to move j: the end of the last active
\* move this call has solved, else last_move_time, which the calls before
\* left at the end of an active move or at their flush_time; plus
\* gen_steps_post_active.
ForceStepsTime(k, moves, j) ==
  (IF LastActiveBefore(k, moves, j) > FirstUnprocessed(moves, 0, k.last_flush_time)
   THEN MoveEnd(moves[LastActiveBefore(k, moves, j)])
   ELSE k.last_move_time) + k.gen_steps_post_active

ForcedStepsOf(k, s, q, flush_time) ==
  \A j \in 1..active_len(q) :
    ( /\ ~check_active(k, get_active_moves(q)[j])
      /\ Visited(k, get_active_moves(q), j, flush_time) )
    => PostActivePost(generate_steps(k, s, q, flush_time).sk, get_active_moves(q)[j],
                      ForceStepsTime(k, get_active_moves(q), j), flush_time)

\* C33: generate_steps range-solves a move that is not active iff it starts
\* strictly before last_move_time + gen_steps_post_active, and then up to
\* the smaller of that time and flush_time; one that starts on the boundary
\* is skipped.  last_move_time is the end of the last active move solved to
\* its end, or the flush_time of the call that returned at an active move.
C33_PostActiveWindow ==
  \A flush_time \in SolverFlushTimes(sk) :
    generate_steps(sk, sc, tq, flush_time).sc.err = "Ok"
      => ForcedStepsOf(sk, sc, tq, flush_time)

\* A move that is not active and starts on the boundary is skipped, and one
\* behind an active move is solved up to the boundary, before flush_time.
C33_Witness ==
  \E flush_time \in SolverFlushTimes(sk) :
    /\ generate_steps(sk, sc, tq, flush_time).sc.err = "Ok"
    /\ \E j \in 1..active_len(tq) :
         /\ ~check_active(sk, get_active_moves(tq)[j])
         /\ LastActiveBefore(sk, get_active_moves(tq), j) > 0
         /\ Visited(sk, get_active_moves(tq), j, flush_time)
         /\ get_active_moves(tq)[j].print_time = ForceStepsTime(sk, get_active_moves(tq), j)
         /\ PostRanges(generate_steps(sk, sc, tq, flush_time).sk, get_active_moves(tq)[j]) = { }
    /\ \E r \in 1..Len(generate_steps(sk, sc, tq, flush_time).sk.ranges) :
         /\ generate_steps(sk, sc, tq, flush_time).sk.ranges[r].window = "post"
         /\ generate_steps(sk, sc, tq, flush_time).sk.ranges[r].abs_end < flush_time
         /\ generate_steps(sk, sc, tq, flush_time).sk.ranges[r].abs_end
              > generate_steps(sk, sc, tq, flush_time).sk.ranges[r].move.print_time

\* ------------------------------------------------------- the pre-active window
\* The moves skipped before active move j: those, none of them active,
\* between the last active move before j (or the first move not fully
\* processed) and j.
SkippedBefore(k, moves, j) ==
  Max(FirstUnprocessed(moves, 0, k.last_flush_time), LastActiveBefore(k, moves, j)) + 1
    .. (j - 1)

\* abs_start of the walk back from active move j.
WalkBackStart(k, moves, j) ==
  Max(Max(moves[j].print_time - k.gen_steps_pre_active, k.last_flush_time),
      ForceStepsTime(k, moves, j))

\* The skipped moves that overlap [abs_start, move_start].
Covered(k, moves, j) ==
  { i \in SkippedBefore(k, moves, j) : MoveEnd(moves[i]) > WalkBackStart(k, moves, j) }

\* The moves of a set of indices in time order.
RECURSIVE MovesIn(_, _, _)
MovesIn(moves, S, i) ==
  IF i > Len(moves) THEN << >>
  ELSE (IF i \in S THEN << moves[i] >> ELSE << >>) \o MovesIn(moves, S, i + 1)

\* The moves of the pre-active range solves of ranges that start at
\* abs_start, in the order of the calls, up to the range solve of move m.
RECURSIVE PreSolved(_, _, _, _)
PreSolved(ranges, i, abs_start, m) ==
  IF i > Len(ranges) \/ (ranges[i].window = "move" /\ ranges[i].move = m) THEN << >>
  ELSE (IF ranges[i].window = "pre" /\ ranges[i].abs_start = abs_start
        THEN << ranges[i].move >> ELSE << >>)
         \o PreSolved(ranges, i + 1, abs_start, m)

WalkBackOf(k, s, q, flush_time) ==
  \A j \in 1..active_len(q) :
    ( /\ check_active(k, get_active_moves(q)[j])
      /\ Visited(k, get_active_moves(q), j, flush_time)
      /\ k.gen_steps_pre_active > 0
      /\ SkippedBefore(k, get_active_moves(q), j) # { } )
    => PreSolved(generate_steps(k, s, q, flush_time).sk.ranges, 1,
                 WalkBackStart(k, get_active_moves(q), j), get_active_moves(q)[j])
         = MovesIn(get_active_moves(q), Covered(k, get_active_moves(q), j), 1)

\* C34: on reaching an active move after skipped moves, with
\* gen_steps_pre_active > 0, generate_steps range-solves, from abs_start =
\* move_start - gen_steps_pre_active clamped from below to last_flush_time
\* and to the end of the prior active burst, exactly the skipped moves that
\* overlap [abs_start, move_start], in time order, before the active move.
C34_PreActiveWalkBack ==
  \A flush_time \in SolverFlushTimes(sk) :
    (sk.timely /\ tqplain /\ generate_steps(sk, sc, tq, flush_time).sc.err = "Ok")
      => WalkBackOf(sk, sc, tq, flush_time)

\* ------------------------------------------------- the cover of the range solves
\* The range solves of all generate_steps calls so far.
AllRanges == sk.past \o sk.ranges

\* The range solves whose window, clamped to move m as gen_steps_range clamps
\* it, holds the unit of time from t on.
SolvedAt(m, t) ==
  { i \in 1..Len(AllRanges) :
      /\ AllRanges[i].move = m
      /\ Max(AllRanges[i].abs_start, m.print_time) <= t
      /\ t < Min(AllRanges[i].abs_end, MoveEnd(m)) }

QueueMoves == { get_active_moves(tq)[j] : j \in 1..active_len(tq) }

\* No part of an active move before the latest flush_time is left unsolved.
NothingUnsolved ==
  \A m \in QueueMoves :
    check_active(sk, m) =>
      \A t \in m.print_time..(Min(MoveEnd(m), sk.last_flush_time) - 1) : SolvedAt(m, t) # { }

\* No instant of a move is solved twice.
NothingSolvedTwice ==
  \A m \in QueueMoves :
    \A t \in m.print_time..(MoveEnd(m) - 1) : Cardinality(SolvedAt(m, t)) <= 1

\* C38: over generate_steps calls with non-decreasing flush_time on a queue
\* that loses no unprocessed move, the windows of the range solves cover the
\* span of every active move up to the latest flush_time, and no instant of
\* a move twice.
C38_CoveredExactlyOnce ==
  (sk.timely /\ sc.err = "Ok") => (NothingUnsolved /\ NothingSolvedTwice)

\* The same cover on the queues whose moves follow each other in time.
CoveredOnPlainQueues ==
  (sk.timely /\ tqplain /\ sc.err = "Ok") => (NothingUnsolved /\ NothingSolvedTwice)

\* ------------------------------------------------------------ the net position
\* C36: with append (directions 0 and 1), commit and flush only, after a
\* successful flush(u64::MAX) last_position minus its initial value (0) is
\* the number of steps appended with direction 1 minus the number appended
\* with direction 0: the SDS filter drops one step of each direction.
C36_NetPositionPreserved ==
  Flushed(sc).err = "Ok" => Flushed(sc).last_position = sc.net

\* After an SDS rollback, a flush that emits the step appended after it and
\* leaves a net position that is not 0.
C36_Witness ==
  /\ rollbacks > 0
  /\ appended = MaxAppends
  /\ Flushed(sc).err = "Ok"
  /\ Flushed(sc).last_position # sc.last_position
  /\ Flushed(sc).last_position = sc.net
  /\ sc.net # 0

\* ------------------------------------------------------- what expire_history keeps
\* s2 is s after expire_history(end_clock): the newest entries of the history
\* are kept, the entries dropped end by end_clock, and no other field changes.
ExpireFrame(s, s2, end_clock) ==
  /\ Len(s2.history) <= Len(s.history)
  /\ s2.history = SubSeq(s.history, 1, Len(s2.history))
  /\ \A i \in (Len(s2.history) + 1)..Len(s.history) : s.history[i].last_clock <= end_clock
  /\ s2 = [ s EXCEPT !.history = s2.history ]

\* The lookups for the clocks after end_clock give what they gave.
ExpireKeepsLookups(s, s2, end_clock) ==
  \A c \in LookupClocks(s) :
    c > end_clock => find_past_position(s2, c) = find_past_position(s, c)

\* C37: expire_history(end_clock) removes only history entries with
\* last_clock <= end_clock, leaves last_position, last_step_clock, the queue
\* and the pending step as they are and, while set_last_position has not
\* been used, find_past_position(c) too for every clock c > end_clock.
C37_ExpireHistoryFrame ==
  \A end_clock \in LookupClocks(sc) :
    /\ ExpireFrame(sc, expire_history(sc, end_clock), end_clock)
    /\ "set_last_position" \notin used
         => ExpireKeepsLookups(sc, expire_history(sc, end_clock), end_clock)

\* A history of two runs of which expire_history drops the older one, and a
\* later clock inside the newer one.
C37_Witness ==
  /\ "set_last_position" \notin used
  /\ Len(sc.history) >= 2
  /\ \E end_clock \in LookupClocks(sc) :
       /\ Len(expire_history(sc, end_clock).history) = Len(sc.history) - 1
       /\ \E c \in LookupClocks(sc) :
            /\ c > end_clock
            /\ c < sc.history[1].last_clock
            /\ find_past_position(sc, c) # sc.last_position

\* ---------------------------------------------------------- a rejected run
\* The errors of check_line.
CheckLineErrors == { "InvalidSequence", "PointOutOfRange", "IntervalOverflow" }

\* The QueueStep at place i of the sink is a run check_line accepts for the
\* steps it was made from (a far run is not checked).
Accepted(s2, i) ==
  \/ s2.trace[i].far
  \/ check_line([ s2 EXCEPT !.last_step_clock = s2.trace[i].base,
                            !.queue = s2.trace[i].steps, !.queue_pos = 0 ],
                StepMove(s2.sink[i].interval, s2.sink[i].count, s2.sink[i].add)) = "Ok"

\* s2 is the compressor a call leaves that started from s0 and in which
\* check_line rejected a run: the commands pushed before stay, every
\* QueueStep pushed has its history entry, last_step_clock and last_position
\* are those after the last of them, and the steps of the rejected run are
\* still queued, so that the same run is found and rejected again.
RejectedPost(s0, s2) ==
  s2.err \in CheckLineErrors =>
    /\ SubSeq(s2.sink, 1, Len(s0.sink)) = s0.sink
    /\ RunsRecorded(s0, s2)
    /\ PushedRuns(s0, s2) = { } =>
         /\ s2.last_step_clock = s0.last_step_clock
         /\ s2.last_position = s0.last_position
    /\ PushedRuns(s0, s2) # { } =>
         /\ s2.last_step_clock = s2.sink[Max0(PushedRuns(s0, s2))].last_clock
         /\ s2.last_position = s2.history[1].start_position + s2.history[1].step_count
    /\ s2.queue_pos < Len(s2.queue)
    /\ check_line(s2, compress_bisect_add(s2)) = s2.err
    /\ \A i \in PushedRuns(s0, s2) : Accepted(s2, i)

\* C39: when check_line rejects a run during flush, commit or append, the
\* call returns that error, pushes no QueueStep for the run, and leaves
\* last_step_clock, last_position, the history and the queued steps of the
\* run as they were after the last accepted run; the runs accepted before it
\* in the call stay emitted.
C39_RejectedRunLeavesState ==
  /\ RejectedPost(sc, commit(sc))
  /\ \A t \in FlushTimes(sc) : RejectedPost(sc, flush(sc, t))
  /\ \A sdir \in { 0, 1 } : \A h \in AppendTimes(sc, NearDeltas \cup FarDeltas) :
       RejectedPost(sc, append(sc, sdir, h))

\* A flush that emits a run and then has the next one rejected.
C39_Witness ==
  \E t \in FlushTimes(sc) :
    /\ flush(sc, t).err \in CheckLineErrors
    /\ PushedRuns(sc, flush(sc, t)) # { }
    /\ flush(sc, t).queue_pos < Len(flush(sc, t).queue)

\* ------------------------------------------------- no error on increasing clocks
\* The steps appended after those of the state: one to MaxMore of them, each
\* 1, 2, 3 or 8 ticks after the one before it.
MoreDeltas == RunDeltas \cup { 16 }

MoreSteps == UNION { [ 1..n -> MoreDeltas ] : n \in 1..MaxMore }

\* The compressor after the appends of the steps of deltas from the i-th on,
\* in the direction of the step before them, and a flush(u64::MAX); the
\* first call that fails ends it.
RECURSIVE Continued(_, _, _)
ContinuedFrom(s1, deltas, i) ==
  IF s1.err # "Ok" THEN s1 ELSE Continued(s1, deltas, i + 1)

Continued(s, deltas, i) ==
  IF i > Len(deltas) THEN flush(s, U64_MAX)
  ELSE ContinuedFrom(append(s, s.next_step_dir, 2 * Now(s) + deltas[i]), deltas, i)

\* C40: with committed step clocks that strictly increase from after
\* last_step_clock, every run compress_bisect_add proposes passes check_line:
\* commit and flush do not return InvalidSequence, PointOutOfRange or
\* IntervalOverflow.
C40_NoErrorOnIncreasingClocks ==
  increasing =>
    /\ sc.err \notin CheckLineErrors
    /\ commit(sc).err \notin CheckLineErrors
    /\ \A t \in FlushTimes(sc) : flush(sc, t).err \notin CheckLineErrors
    /\ \A deltas \in MoreSteps : Continued(sc, deltas, 1).err \notin CheckLineErrors

\* Three queued steps with growing intervals, which a flush emits as one run
\* with an add.
C40_Witness ==
  /\ increasing
  /\ Len(sc.queue) - sc.queue_pos >= 3
  /\ Flushed(sc).err = "Ok"
  /\ \E i \in PushedRuns(sc, Flushed(sc)) :
       Flushed(sc).sink[i].count >= 3 /\ Flushed(sc).sink[i].add # 0
====
